---- MODULE Spec2Model ----
(***************************************************************************)
(* Recurring calendar events of blazemarker: the calendar_db package       *)
(* (GetCalendarEvents, expandRecurringEvent, CreateEvent, UpdateEvent,     *)
(* DeleteEvent) and the calendar handlers of index.go (servCalendar,       *)
(* servAddCalendarEvent, servDeleteCalendarEvent, convertToRRule), over a  *)
(* CalDAV store that holds one iCalendar object per path.                  *)
(*                                                                         *)
(* Strings that the code takes apart (identifiers, rule strings, date      *)
(* values) are sequences of one-character strings.  A time is the record   *)
(* [day, sec]: the wall-clock day counted from 0001-01-01 (day 0, Go's     *)
(* zero time) and the second of that day.                                  *)
(***************************************************************************)
EXTENDS Integers, Sequences, FiniteSets, TLC

VARIABLES
    store,      \* the CalDAV collection: path (identifier) -> iCalendar object or NoObject
    req,        \* per request slot: the delete request in flight and its local variables
    resp,       \* the outcome of the latest step of a delete request
    done,       \* history: the deletes that returned success and that no request which
                \* had fetched the record before them has overwritten since
    view,       \* the last answer of GetCalendarEvents / expandRecurringEvent
    page        \* the last month page built by servCalendar

vars == <<store, req, resp, done, view, page>>

----------------------------------------------------------------------------
(* Go's time package: civil dates, normalisation, weekdays. *)

SecondsPerDay == 86400

\* days from 0001-01-01 to the civil date y-m-d (1 <= m <= 12; d may lie outside the month)
DaysFromCivil(y, m, d) ==
    LET yy  == IF m <= 2 THEN y - 1 ELSE y
        era == yy \div 400
        yoe == yy - era * 400
        mp  == (m + 9) % 12
        doy == (153 * mp + 2) \div 5 + d - 1
        doe == yoe * 365 + yoe \div 4 - yoe \div 100 + doy
    IN  era * 146097 + doe - 306

\* the civil date [y, m, d] of a day number
CivilFromDays(z) ==
    LET zz  == z + 306
        era == zz \div 146097
        doe == zz - era * 146097
        yoe == (doe - doe \div 1460 + doe \div 36524 - doe \div 146096) \div 365
        doy == doe - (365 * yoe + yoe \div 4 - yoe \div 100)
        mp  == (5 * doy + 2) \div 153
        dd  == doy - (153 * mp + 2) \div 5 + 1
        mm  == IF mp < 10 THEN mp + 3 ELSE mp - 9
    IN  [y |-> yoe + era * 400 + (IF mm <= 2 THEN 1 ELSE 0), m |-> mm, d |-> dd]

\* time.Date(y, m, d, ...): months outside 1..12 and days outside the month are normalised
DateNorm(y, m, d) ==
    LET m0 == m - 1
    IN  DaysFromCivil(y + (m0 \div 12), (m0 % 12) + 1, 1) + (d - 1)

Year(t)  == CivilFromDays(t.day).y
Month(t) == CivilFromDays(t.day).m
Day(t)   == CivilFromDays(t.day).d

\* t.AddDate(years, months, days): the clock time is kept
AddDate(t, years, months, days) ==
    LET c == CivilFromDays(t.day)
    IN  [day |-> DateNorm(c.y + years, c.m + months, c.d + days), sec |-> t.sec]

\* t.Add(d), d in seconds
AddSeconds(t, d) ==
    LET s == t.sec + d
    IN  [day |-> t.day + (s \div SecondsPerDay), sec |-> s % SecondsPerDay]

\* t.Sub(u), in seconds
SubTime(t, u) == (t.day - u.day) * SecondsPerDay + (t.sec - u.sec)

Before(t, u) == t.day < u.day \/ (t.day = u.day /\ t.sec < u.sec)
After(t, u)  == Before(u, t)

\* t.Weekday(): 0 is Sunday; 0001-01-01 was a Monday
Weekday(t) == (t.day + 1) % 7
Sunday   == 0
Saturday == 6

ZeroTime  == [day |-> 0, sec |-> 0]
IsZero(t) == t = ZeroTime

DaysIn(y, m) == DateNorm(y, m + 1, 1) - DateNorm(y, m, 1)

----------------------------------------------------------------------------
(* Strings as sequences of characters. *)

Digits == <<"0", "1", "2", "3", "4", "5", "6", "7", "8", "9">>

IsDigit(c) == \E i \in 1..10 : Digits[i] = c
DigitVal(c) == (CHOOSE i \in 1..10 : Digits[i] = c) - 1
DigitChar(n) == Digits[n + 1]

AllDigits(s) == \A i \in 1..Len(s) : IsDigit(s[i])

\* the value of a string of digits
RECURSIVE Atoi(_)
Atoi(s) == IF s = <<>> THEN 0 ELSE 10 * Atoi(SubSeq(s, 1, Len(s) - 1)) + DigitVal(s[Len(s)])

\* the decimal digits of n >= 0
RECURSIVE Itoa(_)
Itoa(n) == IF n < 10 THEN <<DigitChar(n)>> ELSE Itoa(n \div 10) \o <<DigitChar(n % 10)>>

Pad2(n) == <<DigitChar((n \div 10) % 10), DigitChar(n % 10)>>
Pad4(n) == Pad2(n \div 100) \o Pad2(n % 100)

\* strings.LastIndex(s, c) for a one-character c, 0-based; -1 when absent
LastIndex(s, c) ==
    IF \E i \in 1..Len(s) : s[i] = c
    THEN (CHOOSE i \in 1..Len(s) : s[i] = c /\ \A j \in (i + 1)..Len(s) : s[j] # c) - 1
    ELSE -1

\* strings.Index(s, c) for a one-character c, 0-based; -1 when absent
IndexOf(s, c) ==
    IF \E i \in 1..Len(s) : s[i] = c
    THEN (CHOOSE i \in 1..Len(s) : s[i] = c /\ \A j \in 1..(i - 1) : s[j] # c) - 1
    ELSE -1

\* s[from:] with a 0-based index
SliceFrom(s, from) == SubSeq(s, from + 1, Len(s))
\* s[:to] with a 0-based index
SliceTo(s, to) == SubSeq(s, 1, to)

----------------------------------------------------------------------------
(* time.Format and time.Parse for the layouts the code uses. *)

\* t.Format("20060102")
FormatDate(t) ==
    LET c == CivilFromDays(t.day) IN Pad4(c.y) \o Pad2(c.m) \o Pad2(c.d)

\* t.Format("150405")
FormatClock(t) ==
    Pad2(t.sec \div 3600) \o Pad2((t.sec \div 60) % 60) \o Pad2(t.sec % 60)

\* t.Format("20060102T150405")
FormatFloating(t) == FormatDate(t) \o <<"T">> \o FormatClock(t)

\* t.Format("20060102T150405Z")
FormatUTC(t) == FormatFloating(t) \o <<"Z">>

\* t.Format("2006-01-02")
FormatDashed(t) ==
    LET c == CivilFromDays(t.day) IN Pad4(c.y) \o <<"-">> \o Pad2(c.m) \o <<"-">> \o Pad2(c.d)

ParseFailed == [ok |-> FALSE, t |-> ZeroTime]

\* time.Parse("20060102", s): eight digits that name a day of the calendar
ParseDate(s) ==
    IF Len(s) # 8 \/ ~AllDigits(s) THEN ParseFailed
    ELSE LET y == Atoi(SubSeq(s, 1, 4))
             m == Atoi(SubSeq(s, 5, 6))
             d == Atoi(SubSeq(s, 7, 8))
         IN  IF m < 1 \/ m > 12 THEN ParseFailed
             ELSE IF d < 1 \/ d > DaysIn(y, m) THEN ParseFailed
             ELSE [ok |-> TRUE, t |-> [day |-> DaysFromCivil(y, m, d), sec |-> 0]]

\* the clock part "150405" of a layout
ParseClock(s) ==
    IF Len(s) # 6 \/ ~AllDigits(s) THEN [ok |-> FALSE, sec |-> 0]
    ELSE LET h  == Atoi(SubSeq(s, 1, 2))
             mi == Atoi(SubSeq(s, 3, 4))
             se == Atoi(SubSeq(s, 5, 6))
         IN  IF h > 23 \/ mi > 59 \/ se > 59 THEN [ok |-> FALSE, sec |-> 0]
             ELSE [ok |-> TRUE, sec |-> h * 3600 + mi * 60 + se]

\* time.Parse("20060102T150405", s)
ParseFloating(s) ==
    IF Len(s) # 15 \/ s[9] # "T" THEN ParseFailed
    ELSE LET d == ParseDate(SubSeq(s, 1, 8))
             c == ParseClock(SubSeq(s, 10, 15))
         IN  IF d.ok /\ c.ok THEN [ok |-> TRUE, t |-> [day |-> d.t.day, sec |-> c.sec]]
             ELSE ParseFailed

\* time.Parse("20060102T150405Z", s)
ParseUTC(s) ==
    IF Len(s) # 16 \/ s[16] # "Z" THEN ParseFailed
    ELSE ParseFloating(SubSeq(s, 1, 15))

----------------------------------------------------------------------------
(* The rule parser of expandRecurringEvent. *)

\* strings.ReplaceAll(s, "\\" + c, c) for a one-character c
RECURSIVE Unescape(_, _)
Unescape(s, c) ==
    IF Len(s) < 2 THEN s
    ELSE IF s[1] = "\\" /\ s[2] = c THEN <<c>> \o Unescape(SliceFrom(s, 2), c)
    ELSE <<s[1]>> \o Unescape(Tail(s), c)

\* strings.Split(s, c) for a one-character c
RECURSIVE Split(_, _)
Split(s, c) ==
    LET i == IndexOf(s, c)
    IN  IF i < 0 THEN <<s>> ELSE <<SliceTo(s, i)>> \o Split(SliceFrom(s, i + 1), c)

\* strings.SplitN(s, c, 2) for a one-character c
SplitN2(s, c) ==
    LET i == IndexOf(s, c)
    IN  IF i < 0 THEN <<s>> ELSE <<SliceTo(s, i), SliceFrom(s, i + 1)>>

\* strings.TrimSpace(s)
RECURSIVE TrimSpace(_)
TrimSpace(s) ==
    IF s = <<>> THEN s
    ELSE IF s[1] = " " THEN TrimSpace(Tail(s))
    ELSE IF s[Len(s)] = " " THEN TrimSpace(SubSeq(s, 1, Len(s) - 1))
    ELSE s

\* the longest prefix of s made of digits
RECURSIVE DigitPrefix(_)
DigitPrefix(s) ==
    IF s = <<>> \/ ~IsDigit(s[1]) THEN <<>> ELSE <<s[1]>> \o DigitPrefix(Tail(s))

\* the digits without their leading zeros
RECURSIVE StripZeros(_)
StripZeros(ds) == IF Len(ds) > 1 /\ ds[1] = "0" THEN StripZeros(Tail(ds)) ELSE ds

\* a names a larger number than b (digit strings of equal length)
RECURSIVE DigitsGreater(_, _)
DigitsGreater(a, b) ==
    IF a = <<>> THEN FALSE
    ELSE IF a[1] # b[1] THEN DigitVal(a[1]) > DigitVal(b[1])
    ELSE DigitsGreater(Tail(a), Tail(b))

\* the largest int: 2^63 - 1
MaxInt64Digits ==
    <<"9", "2", "2", "3", "3", "7", "2", "0", "3", "6", "8", "5", "4", "7", "7", "5", "8", "0", "7">>

\* strconv.ParseInt(tok, 10, 64) reports a value out of range
OutOfRange(ds) ==
    LET d == StripZeros(ds)
    IN  Len(d) > Len(MaxInt64Digits)
            \/ (Len(d) = Len(MaxInt64Digits) /\ DigitsGreater(d, MaxInt64Digits))

\* fmt.Sscanf(s, "%d", &v): an optional sign and the digits that follow it; when there
\* are no digits, or the number does not fit an int, the scan fails and v keeps the value old
ScanInt(s, old) ==
    LET signed == s # <<>> /\ s[1] \in {"+", "-"}
        body   == IF signed THEN Tail(s) ELSE s
        ds     == DigitPrefix(body)
    IN  IF ds = <<>> \/ OutOfRange(ds) THEN old
        ELSE IF signed /\ s[1] = "-" THEN 0 - Atoi(ds) ELSE Atoi(ds)

DefaultCount == 365
MaxOccurrences == 1000

\* the offset of time.Local from UTC, in seconds
LocalOffset == -18000

\* the UNTIL value: "20060102T150405Z", else "20060102", else the zero time
ParseUntil(value) ==
    IF ParseUTC(value).ok THEN ParseUTC(value).t
    ELSE IF ParseDate(value).ok THEN ParseDate(value).t
    ELSE ZeroTime

\* one "KEY=value" part of the rule applied to the parser's variables
ParsePart(st, part) ==
    LET kv == SplitN2(part, "=")
    IN  IF Len(kv) # 2 THEN st
        ELSE LET key   == TrimSpace(kv[1])
                 value == TrimSpace(kv[2])
             IN  IF key = <<"F", "R", "E", "Q">> THEN [st EXCEPT !.freq = value]
                 ELSE IF key = <<"C", "O", "U", "N", "T">>
                      THEN [st EXCEPT !.count = ScanInt(value, st.count)]
                 ELSE IF key = <<"I", "N", "T", "E", "R", "V", "A", "L">>
                      THEN [st EXCEPT !.interval = ScanInt(value, st.interval)]
                 ELSE IF key = <<"U", "N", "T", "I", "L">>
                      THEN [st EXCEPT !.until = IF ParseUTC(value).ok \/ ParseDate(value).ok
                                                THEN ParseUntil(value) ELSE st.until]
                 ELSE st

RECURSIVE ParseParts(_, _)
ParseParts(st, parts) ==
    IF parts = <<>> THEN st ELSE ParseParts(ParsePart(st, Head(parts)), Tail(parts))

\* the rule as the loop reads it: freq, count, interval, until
ParseRRule(rrule) ==
    ParseParts([freq |-> <<>>, count |-> DefaultCount, interval |-> 1, until |-> ZeroTime],
               Split(Unescape(Unescape(rrule, ";"), ","), ";"))

\* (mutant) the count is used as parsed
CapCountNone(count) == count

\* "Limit count to prevent infinite loops"
CapCount(count) == IF count > MaxOccurrences THEN MaxOccurrences ELSE count

FreqDAILY   == <<"D", "A", "I", "L", "Y">>
FreqWEEKLY  == <<"W", "E", "E", "K", "L", "Y">>
FreqMONTHLY == <<"M", "O", "N", "T", "H", "L", "Y">>
FreqYEARLY  == <<"Y", "E", "A", "R", "L", "Y">>
KnownFreq(freq) == freq \in {FreqDAILY, FreqWEEKLY, FreqMONTHLY, FreqYEARLY}

\* "Advance to next occurrence" for a known frequency
Advance(freq, interval, t) ==
    IF freq = FreqDAILY THEN AddDate(t, 0, 0, interval)
    ELSE IF freq = FreqWEEKLY THEN AddDate(t, 0, 0, 7 * interval)
    ELSE IF freq = FreqMONTHLY THEN AddDate(t, 0, interval, 0)
    ELSE AddDate(t, interval, 0, 0)

----------------------------------------------------------------------------
(* expandRecurringEvent: the occurrence loop. *)

\* (mutant) the occurrence is excluded only when it equals an exclusion to the second
IsExcludedExactInstant(currentTime, exdates) ==
    \E k \in 1..Len(exdates) : currentTime = exdates[k]

\* "Check if this date is excluded (EXDATE)": the year, month and day are compared
IsExcluded(currentTime, exdates) ==
    \E k \in 1..Len(exdates) :
        /\ Year(currentTime) = Year(exdates[k])
        /\ Month(currentTime) = Month(exdates[k])
        /\ Day(currentTime) = Day(exdates[k])

\* fmt.Sprintf("%s-%s", baseEvent.UID, currentTime.Format("20060102"))
InstanceUID(uid, currentTime) == uid \o <<"-">> \o FormatDate(currentTime)

\* (mutant) the occurrence keeps the end time of the master
OccurrenceMasterEnd(baseEvent, currentTime, duration) ==
    [baseEvent EXCEPT !.StartTime = currentTime,
                      !.UID = InstanceUID(baseEvent.UID, currentTime)]

\* the occurrence of baseEvent at currentTime
Occurrence(baseEvent, currentTime, duration) ==
    [baseEvent EXCEPT !.StartTime = currentTime,
                      !.EndTime = AddSeconds(currentTime, duration),
                      !.UID = InstanceUID(baseEvent.UID, currentTime)]

\* "Check if we're past the end date or UNTIL date" (until is a UTC time, currentTime a local one)
PastEnd(currentTime, endDate, until) ==
    \/ After(currentTime, endDate)
    \/ (~IsZero(until) /\ After(currentTime, AddSeconds(until, LocalOffset)))

\* "Only include events within our query range" and not excluded
Included(currentTime, startDate, exdates) ==
    ~Before(currentTime, startDate) /\ ~IsExcluded(currentTime, exdates)

\* one pass of the loop body; st.stop is set by a break or by the return of the default case,
\* st.passes counts the passes that entered the body
LoopBody(st, baseEvent, rule, startDate, endDate, exdates) ==
    IF st.stop THEN st
    ELSE IF PastEnd(st.currentTime, endDate, rule.until)
         THEN [st EXCEPT !.stop = TRUE, !.passes = st.passes + 1]
    ELSE LET duration == SubTime(baseEvent.EndTime, baseEvent.StartTime)
             events   == IF Included(st.currentTime, startDate, exdates)
                         THEN Append(st.events, Occurrence(baseEvent, st.currentTime, duration))
                         ELSE st.events
         IN  IF KnownFreq(rule.freq)
             THEN [i |-> st.i + 1, events |-> events, stop |-> FALSE, passes |-> st.passes + 1,
                   currentTime |-> Advance(rule.freq, rule.interval, st.currentTime)]
             ELSE [st EXCEPT !.events = events, !.stop = TRUE, !.passes = st.passes + 1]

\* n passes of the loop body, one after the other.  The passes are halved and the state
\* between the halves is bound as a value, so that 1000 passes nest 10 deep.
RECURSIVE Passes(_, _, _, _, _, _, _)
Passes(n, st, baseEvent, rule, startDate, endDate, exdates) ==
    IF n <= 0 THEN st
    ELSE IF n = 1 THEN LoopBody(st, baseEvent, rule, startDate, endDate, exdates)
    ELSE CHOOSE r \in { Passes(n - (n \div 2), mid, baseEvent, rule, startDate, endDate, exdates) :
                        mid \in {Passes(n \div 2, st, baseEvent, rule, startDate, endDate, exdates)} } :
             TRUE

\* (mutant) for i := 0; i <= count; i++
LoopBoundOffByOne(count) == IF count > 0 THEN count + 1 ELSE 0

\* for i := 0; i < count; i++: the number of passes
LoopBound(count) == IF count > 0 THEN count ELSE 0

\* the run of expandRecurringEvent: the state of the loop when the function returns
ExpandRun(baseEvent, rrule, startDate, endDate, exdates) ==
    LET parsed == ParseRRule(rrule)
        rule   == [parsed EXCEPT !.count = CapCount(parsed.count)]
        st0    == [i |-> 0, events |-> <<>>, stop |-> FALSE, passes |-> 0,
                   currentTime |-> baseEvent.StartTime]
    IN  Passes(LoopBound(rule.count), st0, baseEvent, rule, startDate, endDate, exdates)

expandRecurringEvent(baseEvent, rrule, startDate, endDate, exdates) ==
    ExpandRun(baseEvent, rrule, startDate, endDate, exdates).events

----------------------------------------------------------------------------
(* The CalDAV collection and GetCalendarEvents. *)

\* An iCalendar object holds one VEVENT:
\*   [UID, SUMMARY, DESCRIPTION, LOCATION, ATTENDEE, DTSTART, DTEND, hasRRULE, RRULE, EXDATE]
\* DTSTART and DTEND are [value, date]: the property value and whether it carries VALUE=DATE;
\* EXDATE and ATTENDEE are the lists of the values of the properties of that name.
NoObject == [absent |-> TRUE]

\* prop.DateTime(time.Local): a date, a floating date-time, or a date-time in UTC
PropDateTime(prop) ==
    IF prop.date THEN ParseDate(prop.value)
    ELSE IF Len(prop.value) = 15 THEN ParseFloating(prop.value)
    ELSE IF Len(prop.value) = 16 THEN ParseUTC(prop.value)
    ELSE ParseFailed

\* the Event that GetCalendarEvents fills from a VEVENT (CreatedBy and RRule are never set)
EventOf(obj) ==
    [UID         |-> obj.UID,
     Title       |-> obj.SUMMARY,
     Description |-> obj.DESCRIPTION,
     Location    |-> obj.LOCATION,
     StartTime   |-> IF PropDateTime(obj.DTSTART).ok THEN PropDateTime(obj.DTSTART).t ELSE ZeroTime,
     EndTime     |-> IF PropDateTime(obj.DTEND).ok THEN PropDateTime(obj.DTEND).t ELSE ZeroTime,
     AllDay      |-> PropDateTime(obj.DTSTART).ok /\ obj.DTSTART.date,
     CreatedBy   |-> "",
     Attendees   |-> obj.ATTENDEE,
     RRule       |-> <<>>]

\* "Parse EXDATE value (format: 20260128 or 20260128T220000Z)": other values are dropped
RECURSIVE ParseExdates(_)
ParseExdates(values) ==
    IF values = <<>> THEN <<>>
    ELSE LET v == Head(values)
         IN  (IF ParseUTC(v).ok THEN <<ParseUTC(v).t>>
              ELSE IF ParseDate(v).ok THEN <<ParseDate(v).t>>
              ELSE <<>>) \o ParseExdates(Tail(values))

\* the events one VEVENT contributes: its expansion when it has a rule, else itself
ComponentEvents(obj, startDate, endDate) ==
    IF obj.hasRRULE
    THEN expandRecurringEvent(EventOf(obj), obj.RRULE, startDate, endDate, ParseExdates(obj.EXDATE))
    ELSE <<EventOf(obj)>>

\* (mutant) the filter carries the start of the window and no end
TimeRangeMatchStartOnly(obj, start, end) ==
    obj.hasRRULE \/ Before(start, PropDateTime(obj.DTEND).t)

\* The server's time-range filter on VEVENT.  An event without a rule matches when it
\* overlaps [start, end); a recurring master matches when its series has begun before end
\* (the filter is not exact for recurring masters).
TimeRangeMatch(obj, start, end) ==
    LET s == PropDateTime(obj.DTSTART).t
        e == PropDateTime(obj.DTEND).t
    IN  IF obj.hasRRULE THEN Before(s, end)
        ELSE Before(start, e) /\ Before(s, end)

\* client.QueryCalendar: the objects of the collection that match, in path order
RECURSIVE QueryCalendar(_, _, _, _)
QueryCalendar(st, paths, start, end) ==
    IF paths = <<>> THEN <<>>
    ELSE (IF st[Head(paths)] # NoObject /\ TimeRangeMatch(st[Head(paths)], start, end)
          THEN <<st[Head(paths)]>> ELSE <<>>) \o QueryCalendar(st, Tail(paths), start, end)

\* sort.Slice by StartTime (an insertion sort for lists this short: equal keys keep their order)
RECURSIVE InsertByStart(_, _)
InsertByStart(sorted, e) ==
    IF sorted = <<>> THEN <<e>>
    ELSE IF Before(e.StartTime, sorted[Len(sorted)].StartTime)
         THEN InsertByStart(SubSeq(sorted, 1, Len(sorted) - 1), e) \o <<sorted[Len(sorted)]>>
         ELSE Append(sorted, e)

\* (mutant) the list is returned in the order the objects contributed to it
SortByStartNone(events) == events

RECURSIVE SortByStart(_)
SortByStart(events) ==
    IF events = <<>> THEN <<>>
    ELSE InsertByStart(SortByStart(SubSeq(events, 1, Len(events) - 1)), events[Len(events)])

RECURSIVE AllComponentEvents(_, _, _)
AllComponentEvents(objects, startDate, endDate) ==
    IF objects = <<>> THEN <<>>
    ELSE ComponentEvents(Head(objects), startDate, endDate)
             \o AllComponentEvents(Tail(objects), startDate, endDate)

\* GetCalendarEvents(config, startDate, endDate); ok is whether the query reached the server
GetCalendarEvents(st, paths, startDate, endDate, ok) ==
    IF ~ok THEN [events |-> <<>>, err |-> TRUE]
    ELSE [events |-> SortByStart(AllComponentEvents(QueryCalendar(st, paths, startDate, endDate),
                                                    startDate, endDate)),
          err |-> FALSE]

----------------------------------------------------------------------------
(* Expansion of one master: the inputs and the specification SpecExpand. *)

MaxCount    == 4     \* rules carry COUNT=1..MaxCount (and one COUNT above the ceiling)
MaxInterval == 2     \* rules carry INTERVAL=1..MaxInterval

At(y, m, d, h, mi) == [day |-> DaysFromCivil(y, m, d), sec |-> h * 3600 + mi * 60]

MasterUID == <<"m", "1">>

\* a timed object (floating DTSTART/DTEND) as CreateEvent writes it
TimedObject(uid, title, start, end) ==
    [UID |-> uid, SUMMARY |-> title, DESCRIPTION |-> "", LOCATION |-> "", ATTENDEE |-> <<>>,
     DTSTART |-> [value |-> FormatFloating(start), date |-> FALSE],
     DTEND   |-> [value |-> FormatFloating(end), date |-> FALSE],
     hasRRULE |-> FALSE, RRULE |-> <<>>, EXDATE |-> <<>>]

\* an all-day object (VALUE=DATE) as CreateEvent writes it
AllDayObject(uid, title, start, end) ==
    [UID |-> uid, SUMMARY |-> title, DESCRIPTION |-> "", LOCATION |-> "", ATTENDEE |-> <<>>,
     DTSTART |-> [value |-> FormatDate(start), date |-> TRUE],
     DTEND   |-> [value |-> FormatDate(end), date |-> TRUE],
     hasRRULE |-> FALSE, RRULE |-> <<>>, EXDATE |-> <<>>]

WithRule(obj, rrule) == [obj EXCEPT !.hasRRULE = TRUE, !.RRULE = rrule]

\* "FREQ=<f>;INTERVAL=<i>;COUNT=<n>"
RuleText(freq, interval, count) ==
    <<"F", "R", "E", "Q", "=">> \o freq
        \o <<";", "I", "N", "T", "E", "R", "V", "A", "L", "=">> \o Itoa(interval)
        \o <<";", "C", "O", "U", "N", "T", "=">> \o Itoa(count)

\* the masters that are expanded: the weekly meeting of 2026-01-05 09:00-10:00 and an
\* all-day event on the 31st of a month
ExpandBases ==
    { [TimedObject(MasterUID, "standup", At(2026, 1, 5, 9, 0), At(2026, 1, 5, 10, 0))
          EXCEPT !.DESCRIPTION = "weekly sync", !.LOCATION = "room 2", !.ATTENDEE = <<"ann", "bob">>],
      AllDayObject(MasterUID, "rent", At(2026, 1, 31, 0, 0), At(2026, 2, 1, 0, 0)) }

\* the rule descriptions [freq, interval, count] and the one above the ceiling
RuleShapes ==
    { [freq |-> f, interval |-> i, count |-> n] :
        f \in {FreqDAILY, FreqWEEKLY, FreqMONTHLY, FreqYEARLY}, i \in 1..MaxInterval, n \in 1..MaxCount }
    \cup { [freq |-> FreqDAILY, interval |-> 1, count |-> MaxOccurrences + 1] }

\* the time of step i (0 is the master's own start): i advances from the start
RECURSIVE StepTime(_, _, _)
StepTime(start, shape, i) ==
    IF i = 0 THEN start
    ELSE IF shape.freq \in {FreqDAILY, FreqWEEKLY}
         THEN AddDate(start, 0, 0, i * shape.interval * (IF shape.freq = FreqWEEKLY THEN 7 ELSE 1))
         ELSE Advance(shape.freq, shape.interval, StepTime(start, shape, i - 1))

\* the exclusion lists tried for a master: none, the date of step 1, the date of step 2 as a
\* UTC date-time, step 0 twice, and a date that is no step
ExdateChoices(start, shape) ==
    { <<>>,
      <<FormatDate(StepTime(start, shape, 1))>>,
      <<FormatUTC([day |-> StepTime(start, shape, 2).day, sec |-> 22 * 3600])>>,
      <<FormatDate(start), FormatUTC([day |-> start.day, sec |-> 0])>>,
      <<FormatDate(AddDate(start, 0, 0, 1)), FormatDate(StepTime(start, shape, 1))>> }

\* the query windows tried for a master: all of its life, exactly its life, and parts of it
ExpandWindows(start, shape) ==
    { [startDate |-> At(2025, 1, 1, 0, 0), endDate |-> At(2045, 1, 1, 0, 0)],
      [startDate |-> start, endDate |-> StepTime(start, shape, shape.count - 1)],
      [startDate |-> At(2026, 1, 1, 0, 0), endDate |-> At(2026, 2, 1, 0, 0)],
      [startDate |-> StepTime(start, shape, 1), endDate |-> StepTime(start, shape, 2)],
      [startDate |-> At(2026, 1, 12, 0, 0), endDate |-> At(2026, 1, 19, 9, 0)] }

ExpandInputsOf(b, sh) ==
    { [kind |-> "input",
       obj |-> [WithRule(b, RuleText(sh.freq, sh.interval, sh.count)) EXCEPT !.EXDATE = ex],
       shape |-> sh, startDate |-> w.startDate, endDate |-> w.endDate, events |-> <<>>] :
        ex \in ExdateChoices(PropDateTime(b.DTSTART).t, sh),
        w \in ExpandWindows(PropDateTime(b.DTSTART).t, sh) }

ExpandInputs == UNION { ExpandInputsOf(b, sh) : b \in ExpandBases, sh \in RuleShapes }

----------------------------------------------------------------------------
(* The state of the store and of the requests when nothing has happened. *)

SingleUID == <<"s", "1">>

\* the paths of the collection, in the order the server lists them
Paths == <<MasterUID, SingleUID>>
PathSet == { Paths[k] : k \in 1..Len(Paths) }

EmptyStore == [u \in PathSet |-> NoObject]

\* the object stored at a path
Lookup(st, path) == IF path \in DOMAIN st THEN st[path] ELSE NoObject

Slots == {1, 2}
Idle == [pc |-> "idle"]
NoResponse == [status |-> "none"]
NoView == [kind |-> "none"]
NoPage == [kind |-> "none"]

Quiet ==
    /\ req = [p \in Slots |-> Idle]
    /\ resp = NoResponse
    /\ done = {}
    /\ page = NoPage

----------------------------------------------------------------------------
(* SpecExpand: one master is expanded over one window. *)

InitExpand ==
    /\ view \in ExpandInputs
    /\ store = EmptyStore
    /\ Quiet

\* the body of GetCalendarEvents for one fetched VEVENT
Expand ==
    /\ view.kind = "input"
    /\ view' = [view EXCEPT !.kind = "expanded",
                            !.events = ComponentEvents(view.obj, view.startDate, view.endDate)]
    /\ UNCHANGED <<store, req, resp, done, page>>

NextExpand == Expand

SpecExpand == InitExpand /\ [][NextExpand]_vars

\* --- what the claims about one expansion speak of ---

ViewStart == PropDateTime(view.obj.DTSTART).t

\* the number of steps the rule of the expanded master takes: its COUNT, at most the ceiling
StepsTaken == IF view.shape.count > MaxOccurrences THEN MaxOccurrences ELSE view.shape.count

\* the calendar dates (YYYYMMDD) of the entries of the master's exclusion list
ExcludedDates == { SubSeq(view.obj.EXDATE[k], 1, 8) : k \in 1..Len(view.obj.EXDATE) }

\* the steps among the first n whose calendar date is in the exclusion list
ExcludedSteps(n) ==
    { i \in 0..(n - 1) : FormatDate(StepTime(ViewStart, view.shape, i)) \in ExcludedDates }

\* the window covers the rule's life: from the master's start through its last step
CoversLife ==
    /\ ~Before(ViewStart, view.startDate)
    /\ ~After(StepTime(ViewStart, view.shape, view.shape.count - 1), view.endDate)

\* C1 (as amended): over a window that covers its life, a master with COUNT=n yields as many
\* occurrences as it takes steps (n, or 1000 when n is larger) minus the steps whose date is
\* excluded; excluded steps count against n.
C1_CountMinusExcluded ==
    (view.kind = "expanded" /\ CoversLife)
        => Len(view.events) = StepsTaken - Cardinality(ExcludedSteps(StepsTaken))

\* C1 witness: a COUNT rule expanded over its whole life with an excluded step and an emitted one
C1_Witness ==
    /\ view.kind = "expanded" /\ CoversLife
    /\ view.shape.count = 4
    /\ Cardinality(ExcludedSteps(4)) = 1
    /\ Len(view.events) = 3

\* C1 as stated: exactly n occurrences minus the excluded steps, for every positive n
C1_Original ==
    (view.kind = "expanded" /\ CoversLife)
        => Len(view.events) = view.shape.count - Cardinality(ExcludedSteps(view.shape.count))

\* C3: no emitted occurrence has the calendar date of an entry of the exclusion list, and
\* every step inside the window whose date matches no entry is emitted.
C3_ExcludedNeverOthersAlways ==
    view.kind = "expanded" =>
        /\ \A k \in 1..Len(view.events) : FormatDate(view.events[k].StartTime) \notin ExcludedDates
        /\ \A i \in 0..(StepsTaken - 1) :
              LET t == StepTime(ViewStart, view.shape, i)
              IN  (/\ ~Before(t, view.startDate) /\ Before(t, view.endDate)
                   /\ FormatDate(t) \notin ExcludedDates)
                      => \E k \in 1..Len(view.events) : view.events[k].StartTime = t

\* C3 witness: a window with a step that is excluded and a step that is emitted
C3_Witness ==
    /\ view.kind = "expanded"
    /\ Len(view.events) >= 2
    /\ \E i \in 0..(StepsTaken - 1) :
          LET t == StepTime(ViewStart, view.shape, i)
          IN  /\ ~Before(t, view.startDate) /\ Before(t, view.endDate)
              /\ FormatDate(t) \in ExcludedDates


----------------------------------------------------------------------------
(* servDeleteCalendarEvent and DeleteEvent. *)

\* servDeleteCalendarEvent: "Extract instance date from UID if it's a recurring event
\* occurrence"; the zero time when the identifier carries no date
HandlerInstanceDate(uid) ==
    LET idx == LastIndex(uid, "-")
    IN  IF idx > 0 /\ Len(SliceFrom(uid, idx + 1)) = 8 /\ ParseDate(SliceFrom(uid, idx + 1)).ok
        THEN ParseDate(SliceFrom(uid, idx + 1)).t
        ELSE ZeroTime

\* (mutant) the identifier is cut at its first dash
OriginalUIDFirstDash(uid) ==
    LET idx == IndexOf(uid, "-")
    IN  IF idx > 0 /\ Len(SliceFrom(uid, idx + 1)) = 8 /\ AllDigits(SliceFrom(uid, idx + 1))
        THEN SliceTo(uid, idx)
        ELSE uid

\* DeleteEvent: "Extract original UID if this is a recurring event occurrence"
OriginalUID(uid) ==
    LET idx == LastIndex(uid, "-")
    IN  IF idx > 0 /\ Len(SliceFrom(uid, idx + 1)) = 8 /\ AllDigits(SliceFrom(uid, idx + 1))
        THEN SliceTo(uid, idx)
        ELSE uid

\* (mutant) the exclusion is added whenever the request is not for the series
AddsExdateAnyUID(uid, deleteSeries, instanceDate) == ~deleteSeries

\* DeleteEvent: "If not deleting the series and we have an instance date, add EXDATE instead"
AddsExdate(uid, deleteSeries, instanceDate) ==
    ~deleteSeries /\ ~IsZero(instanceDate) /\ OriginalUID(uid) # uid

\* (mutant) the date-time of a timed master is written without the UTC designator
ExdateValueFloating(cal, instanceDate) ==
    IF Len(cal.DTSTART.value) = 8 THEN FormatDate(instanceDate) ELSE FormatFloating(instanceDate)

\* DeleteEvent: "Match EXDATE format to DTSTART (date for all-day, datetime for timed)"
ExdateValue(cal, instanceDate) ==
    IF Len(cal.DTSTART.value) = 8 THEN FormatDate(instanceDate) ELSE FormatUTC(instanceDate)

\* (mutant) the exclusion list is replaced by the one new value
WithExdateOnly(cal, instanceDate) ==
    [cal EXCEPT !.EXDATE = <<ExdateValue(cal, instanceDate)>>]

\* (mutant) the EXDATE property is added twice
WithExdateTwice(cal, instanceDate) ==
    [cal EXCEPT !.EXDATE = Append(Append(@, ExdateValue(cal, instanceDate)),
                                  ExdateValue(cal, instanceDate))]

\* eventComponent.Props.Add(exdateProp): the property is appended to the fetched object
WithExdate(cal, instanceDate) ==
    [cal EXCEPT !.EXDATE = Append(@, ExdateValue(cal, instanceDate))]

\* (mutant) the write keeps the exclusions the stored object has gained since the fetch
PutObjectMerging(st, path, cal) ==
    IF st[path] = NoObject THEN [st EXCEPT ![path] = cal]
    ELSE LET gained == SelectSeq(st[path].EXDATE,
                                 LAMBDA x : \A k \in 1..Len(cal.EXDATE) : cal.EXDATE[k] # x)
         IN  [st EXCEPT ![path] = [cal EXCEPT !.EXDATE = gained \o @]]

\* (mutant) the write replaces an object and does not create one
PutObjectIfPresent(st, path, cal) ==
    IF st[path] = NoObject THEN st ELSE [st EXCEPT ![path] = cal]

\* UpdateEvent: client.PutCalendarObject(path, calendar) replaces or creates the object
PutObject(st, path, cal) == [st EXCEPT ![path] = cal]

\* (mutant) the removal goes to the path of the identifier as given
RemovePathAsGiven(uid) == uid

\* DeleteEvent: path of "Delete the entire series or a non-recurring event"
RemovePath(uid) == OriginalUID(uid)

\* client.RemoveAll(path)
RemoveObject(st, path) == IF path \in DOMAIN st THEN [st EXCEPT ![path] = NoObject] ELSE st

MaxExdates == 2    \* a master is fetched for an exclusion while its list is shorter than this

\* the outcome of the latest step of a delete request: its status ("pending" while the
\* request is under way), the request DeleteEvent issued last on the object ("none",
\* "get", "put" or "remove") and the path of that request
Response(status, issued, path) == [status |-> status, issued |-> issued, path |-> path]

\* history: what a delete request that returned success is remembered by
Entry(scope, master, date) == [scope |-> scope, master |-> master, date |-> date]

\* history: a request that has fetched master misses every success on it from now on
Missing(rq, p, master, e) ==
    [q \in Slots |-> IF q # p /\ rq[q].pc = "fetched" /\ rq[q].originalUID = master
                     THEN [rq[q] EXCEPT !.missed = @ \cup {e}] ELSE rq[q]]

\* servDeleteCalendarEvent up to and with DeleteEvent's first request on the object: the
\* fetch (GetCalendarObject) for an exclusion, the removal (RemoveAll) otherwise.
\* ok: the server answers the requests up to there.
DeleteBeginCore(p, uid, deleteSeries, ok) ==
    LET instanceDate == HandlerInstanceDate(uid)
        originalUID  == OriginalUID(uid)
    IN  /\ req[p].pc = "idle"
        /\ IF uid = <<>>
           THEN /\ resp' = Response("bad request", "none", <<>>)
                /\ UNCHANGED <<store, req, done>>
           ELSE IF ~ok
           THEN /\ resp' = Response("error", "none", <<>>)
                /\ UNCHANGED <<store, req, done>>
           ELSE IF AddsExdate(uid, deleteSeries, instanceDate)
           THEN IF Lookup(store, originalUID) # NoObject
                THEN /\ Len(store[originalUID].EXDATE) < MaxExdates
                     /\ req' = [req EXCEPT ![p] = [pc |-> "fetched", uid |-> uid,
                                                   instanceDate |-> instanceDate,
                                                   originalUID |-> originalUID,
                                                   cal |-> store[originalUID], missed |-> {}]]
                     /\ resp' = Response("pending", "get", originalUID)
                     /\ UNCHANGED <<store, done>>
                ELSE /\ resp' = Response("error", "get", originalUID)
                     /\ UNCHANGED <<store, req, done>>
           ELSE LET path == RemovePath(uid)
                IN  IF Lookup(store, path) # NoObject
                    THEN LET e == Entry("series", path, ZeroTime)
                         IN  /\ store' = RemoveObject(store, path)
                             /\ done' = IF deleteSeries THEN done \cup {e} ELSE done
                             /\ req' = IF deleteSeries THEN Missing(req, p, path, e) ELSE req
                             /\ resp' = Response("success", "remove", path)
                    ELSE /\ resp' = Response("error", "remove", path)
                         /\ UNCHANGED <<store, req, done>>

\* the first part of a delete request, when no page or view is on record
DeleteBegin(p, uid, deleteSeries, ok) ==
    DeleteBeginCore(p, uid, deleteSeries, ok) /\ UNCHANGED <<view, page>>

\* DeleteEvent adds the EXDATE to the object it fetched and UpdateEvent writes it back.
\* ok: the server answers UpdateEvent's requests.
DeletePutCore(p, ok) ==
    /\ req[p].pc = "fetched"
    /\ LET r == req[p]
       IN  IF ok
           THEN LET e == Entry("single", r.originalUID, r.instanceDate)
                IN  /\ store' = PutObject(store, r.originalUID, WithExdate(r.cal, r.instanceDate))
                    /\ done' = (done \ r.missed) \cup {e}
                    /\ req' = [Missing(req, p, r.originalUID, e) EXCEPT ![p] = Idle]
                    /\ resp' = Response("success", "put", r.originalUID)
           ELSE /\ req' = [req EXCEPT ![p] = Idle]
                /\ resp' = Response("error", "put", r.originalUID)
                /\ UNCHANGED <<store, done>>

\* the second part of a delete request, when no page or view is on record
DeletePut(p, ok) == DeletePutCore(p, ok) /\ UNCHANGED <<view, page>>

----------------------------------------------------------------------------
(* Spec: delete requests in two slots against a collection that holds a recurring master
   and an event without a rule. *)

OccurrenceDates == { At(2026, 1, 12, 0, 0), At(2026, 1, 19, 0, 0) }

\* an identifier whose last eight characters are digits but no date
BadDateUID == MasterUID \o <<"-", "2", "0", "2", "6", "1", "3", "4", "5">>

\* the identifiers delete requests carry
DeleteUIDs ==
    { InstanceUID(MasterUID, d) : d \in OccurrenceDates }
        \cup {MasterUID, SingleUID, BadDateUID, <<>>}

WeeklyRule == RuleText(FreqWEEKLY, 1, 4)

TimedMaster ==
    WithRule(TimedObject(MasterUID, "standup", At(2026, 1, 5, 9, 0), At(2026, 1, 5, 10, 0)),
             WeeklyRule)

AllDayMaster ==
    WithRule(AllDayObject(MasterUID, "on call", At(2026, 1, 5, 0, 0), At(2026, 1, 6, 0, 0)),
             WeeklyRule)

Dentist == TimedObject(SingleUID, "dentist", At(2026, 1, 14, 15, 0), At(2026, 1, 14, 16, 0))

\* the collections at the start: the weekly meeting, timed or all-day, and a single event
InitStores ==
    { [u \in PathSet |-> IF u = MasterUID THEN m ELSE Dentist] : m \in {TimedMaster, AllDayMaster} }

Init ==
    /\ store \in InitStores
    /\ view = NoView
    /\ Quiet

Next ==
    \/ \E p \in Slots, uid \in DeleteUIDs, deleteSeries \in BOOLEAN, ok \in BOOLEAN :
          DeleteBegin(p, uid, deleteSeries, ok)
    \/ \E p \in Slots, ok \in BOOLEAN : DeletePut(p, ok)

Spec == Init /\ [][Next]_vars

\* --- what the claims about delete requests speak of ---

\* the identifiers of the requests that are instance IDs <masterID>-<YYYYMMDD>
InstanceIDs == { InstanceUID(MasterUID, d) : d \in OccurrenceDates }

LifeStart == At(2026, 1, 1, 0, 0)
LifeEnd   == At(2026, 2, 1, 0, 0)

\* the calendar dates of the occurrences the event query returns for a master over January
OccurrencesOf(st, master) ==
    LET events == GetCalendarEvents(st, Paths, LifeStart, LifeEnd, TRUE).events
    IN  { FormatDate(events[k].StartTime) :
            k \in { j \in 1..Len(events) : events[j].UID = master
                                              \/ OriginalUID(events[j].UID) = master } }

\* the step of slot p is a single-instance delete writing its record back with success
PutStep(p) == req[p].pc = "fetched" /\ DeletePut(p, TRUE)

\* C4 (as amended): after a successful SINGLE delete of <masterID>-<YYYYMMDD> the record the
\* delete wrote expands to what the record it fetched expanded to, minus that date; and
\* every later expansion omits the date unless a single-instance delete that fetched the
\* master before this write has written it back afterwards.
C4_SingleDeleteSticks ==
    /\ [](\A m \in { e.master : e \in done } :
              LET occurrences == OccurrencesOf(store, m)
              IN  \A e \in done : (e.scope = "single" /\ e.master = m)
                                      => FormatDate(e.date) \notin occurrences)
    /\ [][\A p \in Slots : PutStep(p) =>
            LET r == req[p]
            IN  OccurrencesOf(store', r.originalUID)
                  = OccurrencesOf(PutObject(store, r.originalUID, r.cal), r.originalUID)
                        \ {FormatDate(r.instanceDate)}]_vars

\* C4 witness: a delete of one occurrence succeeded, the occurrence is gone, others remain
C4_Witness ==
    /\ resp = Response("success", "put", MasterUID)
    /\ \E e \in done : e.scope = "single" /\ e.master = MasterUID
                       /\ FormatDate(e.date) = <<"2", "0", "2", "6", "0", "1", "1", "9">>
    /\ OccurrencesOf(store, MasterUID)
           = { FormatDate(At(2026, 1, 5, 0, 0)), FormatDate(At(2026, 1, 12, 0, 0)),
               FormatDate(At(2026, 1, 26, 0, 0)) }

\* C4 as stated: after any successful SINGLE delete every later expansion omits the date
C4_Original ==
    [][\A p \in Slots : PutStep(p) =>
         \A e \in done : e.scope = "single"
                             => FormatDate(e.date) \notin OccurrencesOf(store', e.master)]_vars

\* C5 (as amended): a SERIES delete on a master ID or on an instance ID addresses its
\* removal to the master ID; after its success the store holds no record for the master and
\* the event query returns no occurrence of it, unless a single-instance delete that
\* fetched the master before the removal has written it back afterwards.
C5_SeriesDeleteRemoves ==
    /\ [](\A e \in done : e.scope = "series"
                              => /\ Lookup(store, e.master) = NoObject
                                 /\ OccurrencesOf(store, e.master) = {})
    /\ [][\A p \in Slots, uid \in InstanceIDs \cup {MasterUID} :
            (req[p].pc = "idle" /\ DeleteBegin(p, uid, TRUE, TRUE))
                => /\ resp'.issued = "remove" /\ resp'.path = MasterUID
                   /\ Lookup(store', MasterUID) = NoObject]_vars

\* C5 witness: the series was deleted through an instance ID and the master is gone
C5_Witness ==
    /\ resp = Response("success", "remove", MasterUID)
    /\ \E e \in done : e.scope = "series" /\ e.master = MasterUID
    /\ Lookup(store, MasterUID) = NoObject
    /\ Lookup(store, SingleUID) # NoObject

\* C5 as stated: after any successful SERIES delete the store never holds the master again
C5_Original ==
    [][\A p \in Slots : PutStep(p) =>
         \A e \in done : e.scope = "series" => Lookup(store', e.master) = NoObject]_vars

\* the values of the EXDATE properties of a record, as a set
ExdateSet(cal) == { cal.EXDATE[k] : k \in 1..Len(cal.EXDATE) }

\* C7: a successful SINGLE delete of an instance whose date the stored master already
\* excludes (an earlier delete of the same instance ID succeeded) leaves the stored
\* exclusion list as it was, the date present exactly once.
C7_SecondDeleteIdempotent ==
    [][\A p \in Slots :
         (/\ PutStep(p)
          /\ req[p].cal = Lookup(store, req[p].originalUID)
          /\ ExdateValue(req[p].cal, req[p].instanceDate) \in ExdateSet(req[p].cal))
             => store'[req[p].originalUID].EXDATE = store[req[p].originalUID].EXDATE]_vars

\* C9: the record a successful single-instance delete writes back is the record it fetched
\* with the one date appended to the exclusion list, in the granularity of the start.
C9_WritesBackOnlyExdate ==
    [][\A p \in Slots : PutStep(p) =>
         LET old == req[p].cal
             new == store'[req[p].originalUID]
             d   == SubSeq(req[p].uid, Len(req[p].uid) - 7, Len(req[p].uid))
         IN  /\ new.UID = old.UID /\ new.SUMMARY = old.SUMMARY
             /\ new.DESCRIPTION = old.DESCRIPTION /\ new.LOCATION = old.LOCATION
             /\ new.DTSTART = old.DTSTART /\ new.DTEND = old.DTEND
             /\ new.hasRRULE = old.hasRRULE /\ new.RRULE = old.RRULE
             /\ new.ATTENDEE = old.ATTENDEE
             /\ Len(new.EXDATE) = Len(old.EXDATE) + 1
             /\ SubSeq(new.EXDATE, 1, Len(old.EXDATE)) = old.EXDATE
             /\ new.EXDATE[Len(new.EXDATE)]
                    = (IF old.DTSTART.date THEN d
                       ELSE d \o <<"T", "0", "0", "0", "0", "0", "0", "Z">>)
             /\ \A u \in PathSet \ {req[p].originalUID} : store'[u] = store[u]]_vars

\* C9 witness: a delete wrote back a master that already carried an exclusion
C9_Witness ==
    /\ resp = Response("success", "put", MasterUID)
    /\ Lookup(store, MasterUID) # NoObject
    /\ Len(Lookup(store, MasterUID).EXDATE) = 2
    /\ Lookup(store, MasterUID).EXDATE[1] # Lookup(store, MasterUID).EXDATE[2]

\* C10 (as amended): a delete with scope SINGLE on an instance ID <masterID>-<YYYYMMDD>
\* never issues a record removal and removes nothing; a delete with scope SINGLE on an
\* identifier that is no instance ID issues the removal of the record at that identifier.
C10_SingleRemovesOnlyNonInstances ==
    [][\A p \in Slots :
         /\ (req[p].pc = "idle" /\ (resp'.issued = "remove" \/ store' # store))
               => \A uid \in InstanceIDs, ok \in BOOLEAN : ~DeleteBegin(p, uid, FALSE, ok)
         /\ (req[p].pc = "idle" /\ resp'.issued # "remove")
               => \A uid \in DeleteUIDs \ (InstanceIDs \cup {<<>>}) :
                     ~DeleteBegin(p, uid, FALSE, TRUE)
         /\ (req[p].pc = "fetched" /\ \E ok \in BOOLEAN : DeletePut(p, ok))
               => /\ resp'.issued # "remove"
                  /\ \A u \in PathSet : store[u] # NoObject => store'[u] # NoObject]_vars

\* C10 witness: a SINGLE delete of an instance went through and both records are in the store
C10_Witness ==
    /\ resp = Response("success", "put", MasterUID)
    /\ \A u \in PathSet : Lookup(store, u) # NoObject
    /\ Len(Lookup(store, MasterUID).EXDATE) = 1

\* C10 as stated: no delete request with scope SINGLE issues a record removal
C10_Original ==
    [][\A p \in Slots, uid \in DeleteUIDs, ok \in BOOLEAN :
         (req[p].pc = "idle" /\ DeleteBegin(p, uid, FALSE, ok)) => resp'.issued # "remove"]_vars

----------------------------------------------------------------------------
(* SpecQuery: the event query over collections that hold an event without a rule. *)

\* the events without a rule that are stored at SingleUID
SingleEvents ==
    { Dentist,
      AllDayObject(SingleUID, "holiday", At(2026, 1, 14, 0, 0), At(2026, 1, 15, 0, 0)),
      TimedObject(SingleUID, "trip", At(2026, 1, 10, 8, 0), At(2026, 1, 20, 18, 0)),
      TimedObject(SingleUID, "new year", At(2025, 12, 31, 23, 0), At(2026, 1, 1, 1, 0)),
      AllDayObject(SingleUID, "closing", At(2026, 1, 31, 0, 0), At(2026, 2, 1, 0, 0)),
      TimedObject(SingleUID, "opening", At(2026, 2, 1, 0, 0), At(2026, 2, 1, 1, 0)) }

QueryStores ==
    { [u \in PathSet |-> IF u = MasterUID THEN m ELSE e] :
        m \in {TimedMaster, NoObject}, e \in SingleEvents }

QueryWindows ==
    { [startDate |-> At(2026, 1, 1, 0, 0),   endDate |-> At(2026, 2, 1, 0, 0)],
      [startDate |-> At(2025, 12, 28, 0, 0), endDate |-> At(2026, 2, 1, 0, 0)],
      [startDate |-> At(2026, 2, 1, 0, 0),   endDate |-> At(2026, 3, 1, 0, 0)],
      [startDate |-> At(2026, 1, 12, 0, 0),  endDate |-> At(2026, 1, 19, 0, 0)],
      [startDate |-> At(2026, 1, 12, 0, 0),  endDate |-> At(2026, 1, 14, 15, 0)],
      [startDate |-> At(2026, 1, 14, 16, 0), endDate |-> At(2026, 1, 15, 0, 0)],
      [startDate |-> At(2026, 1, 14, 15, 30), endDate |-> At(2026, 1, 14, 15, 45)],
      [startDate |-> At(2026, 1, 15, 0, 0),  endDate |-> At(2026, 1, 16, 0, 0)],
      [startDate |-> At(2026, 1, 20, 18, 0), endDate |-> At(2026, 1, 31, 0, 0)] }

InitQuery ==
    /\ store \in QueryStores
    /\ view = NoView
    /\ Quiet

\* GetCalendarEvents over a window; ok: the query reaches the server
Query(w, ok) ==
    LET got == GetCalendarEvents(store, Paths, w.startDate, w.endDate, ok)
    IN  /\ view' = [kind |-> "query", startDate |-> w.startDate, endDate |-> w.endDate,
                    events |-> got.events, err |-> got.err]
        /\ UNCHANGED <<store, req, resp, done, page>>

NextQuery == \E w \in QueryWindows, ok \in BOOLEAN : Query(w, ok)

SpecQuery == InitQuery /\ [][NextQuery]_vars

\* the stored event without a rule overlaps the window [startDate, endDate) of the view
SingleOverlaps ==
    LET s == PropDateTime(store[SingleUID].DTSTART).t
        e == PropDateTime(store[SingleUID].DTEND).t
    IN  Before(s, view.endDate) /\ Before(view.startDate, e)

\* the occurrences of the view that belong to the event without a rule
SingleOccurrences == { k \in 1..Len(view.events) : view.events[k].UID = SingleUID }

----------------------------------------------------------------------------
(* SpecResolve: an instance ID is built from a master ID and a date and resolved. *)

\* what servDeleteCalendarEvent and DeleteEvent make of an identifier: the record they
\* address, the date of the instance, and whether they treat it as an instance
Resolve(uid) ==
    [masterID   |-> OriginalUID(uid),
     date       |-> HandlerInstanceDate(uid),
     isInstance |-> AddsExdate(uid, FALSE, HandlerInstanceDate(uid))]

\* master IDs: empty, plain, with dashes, with a seven-digit and with an eight-digit tail
ResolveMasters ==
    { <<>>, MasterUID, <<"a", "-", "b">>, <<"-", "x">>, <<"x", "-">>,
      <<"e", "-", "2", "0", "2", "6", "0", "1", "1">>,
      <<"e", "-", "2", "0", "2", "6", "0", "1", "1", "2">> }

ResolveDates ==
    { ZeroTime, At(1, 1, 2, 0, 0), At(999, 12, 31, 0, 0), At(2024, 2, 29, 0, 0),
      At(2026, 1, 5, 0, 0), At(2026, 1, 19, 0, 0), At(2026, 10, 31, 0, 0),
      At(2026, 12, 31, 0, 0), At(9999, 12, 31, 0, 0) }

InitResolve ==
    /\ view \in { [kind |-> "id-input", masterID |-> m, date |-> d] :
                    m \in ResolveMasters, d \in ResolveDates }
    /\ store = EmptyStore
    /\ Quiet

\* the identifier of the occurrence is built as expandRecurringEvent builds it and
\* resolved as the delete request resolves it
ResolveInstance ==
    /\ view.kind = "id-input"
    /\ view' = [kind |-> "resolved", masterID |-> view.masterID, date |-> view.date,
                uid |-> InstanceUID(view.masterID, view.date),
                result |-> Resolve(InstanceUID(view.masterID, view.date))]
    /\ UNCHANGED <<store, req, resp, done, page>>

NextResolve == ResolveInstance

SpecResolve == InitResolve /\ [][NextResolve]_vars

\* the identifier itself ends in a dash and eight digits
EndsInDateSuffix(id) ==
    /\ Len(id) >= 9
    /\ id[Len(id) - 8] = "-"
    /\ \A k \in (Len(id) - 7)..Len(id) : IsDigit(id[k])

\* C6 (as amended): for every non-empty master ID that does not end in a dash and eight
\* digits and every date of the years 0001 to 9999 other than 0001-01-01, the instance ID
\* resolves to that master ID, that date and isInstance = true.
C6_ResolveInverts ==
    (/\ view.kind = "resolved"
     /\ ~EndsInDateSuffix(view.masterID)
     /\ view.masterID # <<>>
     /\ view.date # ZeroTime)
        => view.result = [masterID |-> view.masterID, date |-> view.date, isInstance |-> TRUE]

\* C6 witness: a master ID with a dash in it resolved from its instance ID
C6_Witness ==
    /\ view.kind = "resolved"
    /\ view.masterID = <<"a", "-", "b">>
    /\ view.date = At(2026, 1, 19, 0, 0)
    /\ view.result.isInstance

\* C6 as stated: the empty master ID and every calendar date included
C6_Original ==
    (view.kind = "resolved" /\ ~EndsInDateSuffix(view.masterID))
        => view.result = [masterID |-> view.masterID, date |-> view.date, isInstance |-> TRUE]

----------------------------------------------------------------------------
(* SpecGrid: servCalendar builds the page of a month. *)

\* time.Parse("2006-01", s)
ParseMonth(s) ==
    IF Len(s) # 7 \/ s[5] # "-" \/ ~AllDigits(SubSeq(s, 1, 4)) \/ ~AllDigits(SubSeq(s, 6, 7))
    THEN ParseFailed
    ELSE LET y == Atoi(SubSeq(s, 1, 4))
             m == Atoi(SubSeq(s, 6, 7))
         IN  IF m < 1 \/ m > 12 THEN ParseFailed
             ELSE [ok |-> TRUE, t |-> [day |-> DaysFromCivil(y, m, 1), sec |-> 0]]

\* t.Format("2006-01")
FormatMonth(t) == SubSeq(FormatDashed(t), 1, 7)

MonthNames ==
    <<"January", "February", "March", "April", "May", "June", "July", "August",
      "September", "October", "November", "December">>

\* t.Format("January 2006")
FormatMonthYear(t) == <<MonthNames[Month(t)], " ">> \o Pad4(Year(t))

\* t.Format("3:04 PM")
FormatKitchen(t) ==
    LET h  == t.sec \div 3600
        h12 == IF h % 12 = 0 THEN 12 ELSE h % 12
    IN  Itoa(h12) \o <<":">> \o Pad2((t.sec \div 60) % 60)
            \o (IF h < 12 THEN <<" ", "A", "M">> ELSE <<" ", "P", "M">>)

\* "Parse month parameter (format: YYYY-MM)": the current time when absent or malformed
TargetDate(monthParam, now) ==
    IF monthParam # <<>> /\ ParseMonth(monthParam).ok THEN ParseMonth(monthParam).t ELSE now

\* time.Date(year, month, 1, 0, 0, 0, 0, time.Local)
FirstDay(targetDate) == [day |-> DateNorm(Year(targetDate), Month(targetDate), 1), sec |-> 0]

\* firstDay.AddDate(0, 1, -1)
LastDay(firstDay) == AddDate(firstDay, 0, 1, -1)

\* (mutant) the week of the grid starts on Monday
RECURSIVE GridStartMonday(_)
GridStartMonday(startDate) ==
    IF Weekday(startDate) # 1 THEN GridStartMonday(AddDate(startDate, 0, 0, -1)) ELSE startDate

\* for startDate.Weekday() != time.Sunday { startDate = startDate.AddDate(0, 0, -1) }
RECURSIVE GridStart(_)
GridStart(startDate) ==
    IF Weekday(startDate) # Sunday THEN GridStart(AddDate(startDate, 0, 0, -1)) ELSE startDate

\* (mutant) the grid ends on the last day of the month
GridEndNoPadding(endDate) == endDate

\* for endDate.Weekday() != time.Saturday { endDate = endDate.AddDate(0, 0, 1) }
RECURSIVE GridEnd(_)
GridEnd(endDate) ==
    IF Weekday(endDate) # Saturday THEN GridEnd(AddDate(endDate, 0, 0, 1)) ELSE endDate

\* (mutant) the events are grouped by the date on which they end
RECURSIVE EventsByEndDate(_, _)
EventsByEndDate(events, dateKey) ==
    IF events = <<>> THEN <<>>
    ELSE (IF FormatDashed(Head(events).EndTime) = dateKey THEN <<Head(events)>> ELSE <<>>)
             \o EventsByEndDate(Tail(events), dateKey)

\* eventsByDate[dateKey]: the events that start on the date, in the order of the list
RECURSIVE EventsByDate(_, _)
EventsByDate(events, dateKey) ==
    IF events = <<>> THEN <<>>
    ELSE (IF FormatDashed(Head(events).StartTime) = dateKey THEN <<Head(events)>> ELSE <<>>)
             \o EventsByDate(Tail(events), dateKey)

\* the entry of an event in the cell of its day
DayEvent(event) ==
    [UID |-> event.UID, Title |-> event.Title, AllDay |-> event.AllDay,
     StartTimeFormatted |-> FormatKitchen(event.StartTime)]

\* the CalendarDay of currentDate
CalendarDay(currentDate, month, today, events) ==
    LET dayEvents == EventsByDate(events, FormatDashed(currentDate))
    IN  [Day          |-> Day(currentDate),
         Date         |-> FormatDashed(currentDate),
         IsOtherMonth |-> Month(currentDate) # month,
         IsToday      |-> FormatDashed(currentDate) = FormatDashed(today),
         Events       |-> [k \in 1..Len(dayEvents) |-> DayEvent(dayEvents[k])]]

\* for currentDate.Before(endDate.AddDate(0, 0, 1)) { ... currentDate.AddDate(0, 0, 1) }
RECURSIVE CalendarDays(_, _, _, _, _)
CalendarDays(currentDate, endDate, month, today, events) ==
    IF Before(currentDate, AddDate(endDate, 0, 0, 1))
    THEN <<CalendarDay(currentDate, month, today, events)>>
             \o CalendarDays(AddDate(currentDate, 0, 0, 1), endDate, month, today, events)
    ELSE <<>>

UpcomingDays == 30    \* "Get upcoming events (next 30 days)"

\* an entry of the events JSON of the page
EventJSON(e) ==
    [uid |-> e.UID, title |-> e.Title, description |-> e.Description, location |-> e.Location,
     start_time |-> e.StartTime, end_time |-> e.EndTime, all_day |-> e.AllDay]

\* servCalendar for an authenticated request, the one request of a behaviour: monthParam
\* is the month parameter, now the wall clock, ok and okUpcoming whether the two event
\* queries reach the server.  view keeps the request the page answers.
servCalendar(monthParam, now, ok, okUpcoming) ==
    LET targetDate == TargetDate(monthParam, now)
        firstDay   == FirstDay(targetDate)
        lastDay    == LastDay(firstDay)
        startDate  == GridStart(firstDay)
        endDate    == GridEnd(lastDay)
        got        == GetCalendarEvents(store, Paths, startDate, AddSeconds(endDate, SecondsPerDay), ok)
        events     == IF got.err THEN <<>> ELSE got.events
        gotUp      == GetCalendarEvents(store, Paths, now, AddDate(now, 0, 0, UpcomingDays), okUpcoming)
        upcoming   == IF gotUp.err THEN <<>> ELSE gotUp.events
    IN  /\ page = NoPage
        /\ page' = [kind           |-> "month",
                    MonthYear      |-> FormatMonthYear(firstDay),
                    PrevMonth      |-> FormatMonth(AddDate(firstDay, 0, -1, 0)),
                    NextMonth      |-> FormatMonth(AddDate(firstDay, 0, 1, 0)),
                    CalendarDays   |-> CalendarDays(startDate, endDate, Month(targetDate), now, events),
                    UpcomingEvents |-> upcoming,
                    EventsJSON     |-> [k \in 1..Len(events) |-> EventJSON(events[k])]]
        /\ view' = [kind |-> "month request", monthParam |-> monthParam, now |-> now,
                    ok |-> ok, okUpcoming |-> okUpcoming]
        /\ UNCHANGED <<store, req, resp, done>>

\* the month parameters of the requests: none, malformed, and the months of three years
GridYears == 2024..2026
MonthParams ==
    { <<>>, <<"2", "0", "2", "6", "-", "1", "3">>, <<"2", "0", "2", "6", "0", "1">> }
        \cup { FormatMonth(At(y, m, 1, 0, 0)) : y \in GridYears, m \in 1..12 }

\* the wall clock of the requests
GridNows ==
    { At(2026, 1, 14, 12, 0), At(2026, 2, 1, 0, 0), At(2025, 12, 28, 23, 59),
      At(2024, 2, 29, 8, 0) }

\* a collection with a daily meeting from 2026-01-30 on and a trip that starts on that day
\* and ends three days later, in the next month
TripStore ==
    [u \in PathSet |->
        IF u = MasterUID
        THEN WithRule(TimedObject(MasterUID, "standup", At(2026, 1, 30, 9, 0), At(2026, 1, 30, 10, 0)),
                      RuleText(FreqDAILY, 1, 4))
        ELSE TimedObject(SingleUID, "trip", At(2026, 1, 30, 10, 0), At(2026, 2, 2, 10, 0))]

InitGrid ==
    /\ store \in InitStores \cup {TripStore}
    /\ view = NoView
    /\ Quiet

NextGrid ==
    \E monthParam \in MonthParams, now \in GridNows, ok \in BOOLEAN, okUpcoming \in BOOLEAN :
        servCalendar(monthParam, now, ok, okUpcoming)

SpecGrid == InitGrid /\ [][NextGrid]_vars

\* the cells of the page that carry the 'today' flag
TodayCells == { k \in 1..Len(page.CalendarDays) : page.CalendarDays[k].IsToday }

\* C8: the grid of every month has a number of cells that is a multiple of 7, and at most
\* one of its cells carries the 'today' flag.
C8_GridWeeksOneToday ==
    page.kind = "month" =>
        /\ Len(page.CalendarDays) % 7 = 0
        /\ Cardinality(TodayCells) <= 1

\* C8 witness: a month of five weeks with today in a padding cell and events in its cells
C8_Witness ==
    /\ page.kind = "month"
    /\ Len(page.CalendarDays) = 35
    /\ \E k \in TodayCells : page.CalendarDays[k].IsOtherMonth
    /\ \E k \in 1..Len(page.CalendarDays) : Len(page.CalendarDays[k].Events) > 0

----------------------------------------------------------------------------
(* The window of one expansion (SpecExpand). *)

\* C11 (as stated): every emitted occurrence starts inside the half-open window,
\* queryStart <= t < queryEnd: a step exactly on queryEnd is not emitted and no step before
\* queryStart is emitted.
C11_WithinWindow ==
    view.kind = "expanded" =>
        \A k \in 1..Len(view.events) :
            /\ ~Before(view.events[k].StartTime, view.startDate)
            /\ Before(view.events[k].StartTime, view.endDate)

----------------------------------------------------------------------------
(* SpecRule: one master whose rule is an arbitrary string is expanded over one window. *)

KeyFREQ     == <<"F", "R", "E", "Q", "=">>
KeyCOUNT    == <<"C", "O", "U", "N", "T", "=">>
KeyINTERVAL == <<"I", "N", "T", "E", "R", "V", "A", "L", "=">>
KeyUNTIL    == <<"U", "N", "T", "I", "L", "=">>
FreqHOURLY  == <<"H", "O", "U", "R", "L", "Y">>
Semi        == <<";">>

\* the rule strings that are expanded, each with what it is a case of
RuleTexts ==
    { [rrule |-> KeyFREQ \o FreqWEEKLY \o Semi \o KeyCOUNT \o <<"3">>, case |-> "plain"],
      [rrule |-> KeyFREQ \o FreqDAILY \o Semi \o KeyUNTIL \o FormatUTC(At(2026, 1, 20, 0, 0)),
       case |-> "plain"],
      [rrule |-> KeyFREQ \o FreqDAILY, case |-> "no bound"],
      [rrule |-> KeyFREQ \o FreqMONTHLY \o Semi \o KeyINTERVAL \o <<"2">>, case |-> "no bound"],
      [rrule |-> KeyFREQ \o FreqDAILY \o Semi \o KeyCOUNT \o Itoa(MaxOccurrences + 1),
       case |-> "count above ceiling"],
      [rrule |-> KeyFREQ \o FreqDAILY \o Semi \o KeyCOUNT \o Itoa(2 * MaxOccurrences),
       case |-> "count above ceiling"],
      [rrule |-> KeyFREQ \o FreqDAILY \o Semi \o KeyINTERVAL \o <<"0">> \o Semi \o KeyCOUNT \o <<"5">>,
       case |-> "interval zero"],
      [rrule |-> KeyFREQ \o FreqWEEKLY \o Semi \o KeyINTERVAL \o <<"0">>, case |-> "interval zero"],
      [rrule |-> KeyFREQ \o FreqWEEKLY \o Semi \o KeyINTERVAL \o <<"-", "1">> \o Semi \o KeyCOUNT \o <<"3">>,
       case |-> "interval negative"],
      [rrule |-> KeyFREQ \o FreqDAILY \o Semi \o KeyINTERVAL \o <<"-", "1">>,
       case |-> "interval negative"],
      [rrule |-> KeyFREQ \o FreqDAILY \o Semi \o KeyCOUNT \o <<"-", "2">>, case |-> "count negative"],
      [rrule |-> KeyFREQ \o FreqHOURLY \o Semi \o KeyCOUNT \o <<"3">>, case |-> "unknown frequency"],
      [rrule |-> KeyFREQ \o FreqHOURLY, case |-> "unknown frequency"],
      [rrule |-> KeyCOUNT \o <<"3">>, case |-> "missing frequency"],
      [rrule |-> <<>>, case |-> "missing frequency"],
      [rrule |-> KeyFREQ \o FreqDAILY \o Semi \o KeyCOUNT \o <<"a", "b", "c">>,
       case |-> "count not an integer"],
      [rrule |-> KeyFREQ \o FreqDAILY \o Semi \o KeyUNTIL \o <<"s", "o", "o", "n">>,
       case |-> "until not a date"] }

\* the query windows: all of the master's future, January 2026, the instant of the master's
\* start, half a year before it, and a month after it
RuleWindows(start) ==
    { [startDate |-> At(2025, 1, 1, 0, 0), endDate |-> At(2045, 1, 1, 0, 0)],
      [startDate |-> At(2026, 1, 1, 0, 0), endDate |-> At(2026, 2, 1, 0, 0)],
      [startDate |-> start, endDate |-> start],
      [startDate |-> At(2025, 6, 1, 0, 0), endDate |-> At(2025, 7, 1, 0, 0)],
      [startDate |-> At(2026, 3, 1, 0, 0), endDate |-> At(2026, 4, 1, 0, 0)] }

RuleInputs ==
    UNION { { [kind |-> "rule", obj |-> WithRule(b, r.rrule), case |-> r.case,
               startDate |-> w.startDate, endDate |-> w.endDate, events |-> <<>>, passes |-> 0] :
                w \in RuleWindows(PropDateTime(b.DTSTART).t) } :
            b \in ExpandBases, r \in RuleTexts }

InitRule ==
    /\ view \in RuleInputs
    /\ store = EmptyStore
    /\ Quiet

\* the body of GetCalendarEvents for one fetched VEVENT that carries an RRULE property
ExpandRule ==
    /\ view.kind = "rule"
    /\ view' = CHOOSE v \in { [view EXCEPT !.kind = "ran", !.events = run.events,
                                           !.passes = run.passes] :
                              run \in { ExpandRun(EventOf(view.obj), view.obj.RRULE, view.startDate,
                                                  view.endDate, ParseExdates(view.obj.EXDATE)) } } :
                   TRUE
    /\ UNCHANGED <<store, req, resp, done, page>>

NextRule == ExpandRule

SpecRule == InitRule /\ [][NextRule]_vars

\* C12: for every rule string (without COUNT and UNTIL, with COUNT above 1000, with INTERVAL
\* zero or negative, with an unknown frequency) and every window, the loop enters its body at
\* most 1000 times and returns, and at most 1000 occurrences are emitted for the master.
C12_AtMostCeiling ==
    view.kind = "ran" =>
        /\ view.passes <= MaxOccurrences
        /\ Len(view.events) <= MaxOccurrences

\* C12 witness: a rule with COUNT above the ceiling has run through the ceiling
C12_Witness ==
    /\ view.kind = "ran"
    /\ view.case = "count above ceiling"
    /\ view.passes = MaxOccurrences
    /\ Len(view.events) = MaxOccurrences

\* the cases in which the rule cannot be decoded
MalformedCases ==
    {"unknown frequency", "missing frequency", "count not an integer", "until not a date"}

\* C13 (as stated): when the frequency is missing or not recognized, COUNT is not an integer
\* or UNTIL is not a date, decoding fails and no occurrence is produced: neither the master's
\* first occurrence nor occurrences up to a default bound.
C13_MalformedRejected ==
    (view.kind = "ran" /\ view.case \in MalformedCases) => view.events = <<>>

----------------------------------------------------------------------------
(* SpecCreate: servAddCalendarEvent and CreateEvent store one event. *)

\* time.ParseInLocation("2006-01-02", s, time.Local)
ParseDashed(s) ==
    IF Len(s) # 10 \/ s[5] # "-" \/ s[8] # "-" THEN ParseFailed
    ELSE ParseDate(SubSeq(s, 1, 4) \o SubSeq(s, 6, 7) \o SubSeq(s, 9, 10))

\* time.ParseInLocation("2006-01-02T15:04", s, time.Local)
ParseDashedMinute(s) ==
    IF Len(s) # 16 \/ s[11] # "T" \/ s[14] # ":" THEN ParseFailed
    ELSE LET d == ParseDashed(SubSeq(s, 1, 10))
             c == ParseClock(SubSeq(s, 12, 13) \o SubSeq(s, 15, 16) \o <<"0", "0">>)
         IN  IF d.ok /\ c.ok THEN [ok |-> TRUE, t |-> [day |-> d.t.day, sec |-> c.sec]]
             ELSE ParseFailed

\* t.Format("2006-01-02T15:04"), the value of the form's date-time field
FormatDashedMinute(t) ==
    FormatDashed(t) \o <<"T">> \o Pad2(t.sec \div 3600) \o <<":">> \o Pad2((t.sec \div 60) % 60)

\* (mutant) the rule is written without its INTERVAL field
convertToRRuleNoInterval(recurrenceRule) ==
    LET parts == SplitN2(recurrenceRule, ":")
    IN  IF Len(parts) # 2 THEN <<>>
        ELSE KeyFREQ \o parts[1] \o Semi \o KeyCOUNT \o parts[2]

\* convertToRRule(recurrenceRule): "DAILY:10" -> "FREQ=DAILY;INTERVAL=1;COUNT=10"
convertToRRule(recurrenceRule) ==
    LET parts == SplitN2(recurrenceRule, ":")
    IN  IF Len(parts) # 2 THEN <<>>
        ELSE KeyFREQ \o parts[1] \o Semi \o KeyINTERVAL \o <<"1">> \o Semi \o KeyCOUNT \o parts[2]

\* fmt.Sprintf("%d@blazemarker.com", time.Now().UnixNano())
GeneratedUID(nanos) ==
    Itoa(nanos) \o <<"@", "b", "l", "a", "z", "e", "m", "a", "r", "k", "e", "r", ".", "c", "o", "m">>

\* the iCalendar object CreateEvent builds for event: the RRULE property is set in the
\* branch of the timed event only
CreatedObject(event) ==
    LET base == IF event.AllDay
                THEN AllDayObject(event.UID, event.Title, event.StartTime, event.EndTime)
                ELSE TimedObject(event.UID, event.Title, event.StartTime, event.EndTime)
        full == [base EXCEPT !.DESCRIPTION = event.Description, !.LOCATION = event.Location]
    IN  IF ~event.AllDay /\ event.RRule # <<>> THEN WithRule(full, event.RRule) ELSE full

\* client.PutCalendarObject at a path the collection may not hold yet
PutNewObject(st, path, cal) ==
    [u \in DOMAIN st \cup {path} |-> IF u = path THEN cal ELSE st[u]]

\* the form of the request as the handler reads it
Form(title, start_time, end_time, all_day, recurrence_rule) ==
    [title |-> title, description |-> "", location |-> "", start_time |-> start_time,
     end_time |-> end_time, all_day |-> all_day, recurrence_rule |-> recurrence_rule]

\* servAddCalendarEvent for an authenticated request, the one request of a behaviour: post is
\* whether the method is POST, nanos the clock CreateEvent reads, ok whether the PUT succeeds
servAddCalendarEvent(post, form, nanos, ok) ==
    LET allDay    == form.all_day
        start     == IF allDay THEN ParseDashed(form.start_time)
                     ELSE ParseDashedMinute(form.start_time)
        endGiven  == IF allDay THEN ParseDashed(form.end_time)
                     ELSE ParseDashedMinute(form.end_time)
        endTime   == IF form.end_time = <<>>
                     THEN (IF allDay THEN AddDate(start.t, 0, 0, 1) ELSE AddSeconds(start.t, 3600))
                     ELSE endGiven.t
        rrule     == IF form.recurrence_rule # <<>> THEN convertToRRule(form.recurrence_rule)
                     ELSE <<>>
        uid       == GeneratedUID(nanos)
        event     == [UID |-> uid, Title |-> form.title, Description |-> form.description,
                      Location |-> form.location, StartTime |-> start.t, EndTime |-> endTime,
                      AllDay |-> allDay, CreatedBy |-> "user", RRule |-> rrule]
        rejected  == \/ form.title = "" \/ form.start_time = <<>>
                     \/ ~start.ok
                     \/ (form.end_time # <<>> /\ ~endGiven.ok)
    IN  /\ view = NoView
        /\ view' = [kind |-> "create", form |-> form, uid |-> uid]
        /\ IF ~post
           THEN /\ resp' = Response("method not allowed", "none", <<>>)
                /\ store' = store
           ELSE IF rejected
           THEN /\ resp' = Response("bad request", "none", <<>>)
                /\ store' = store
           ELSE IF ~ok
           THEN /\ resp' = Response("error", "put", uid)
                /\ store' = store
           ELSE /\ resp' = Response("redirect", "put", uid)
                /\ store' = PutNewObject(store, uid, CreatedObject(event))
        /\ UNCHANGED <<req, done, page>>

Colon == <<":">>

\* the recurrence selectors of the form: none, the four frequencies with a count, and the
\* selectors that name no rule
Selectors ==
    { <<>>,
      FreqDAILY \o Colon \o <<"1", "0">>, FreqWEEKLY \o Colon \o <<"4">>,
      FreqMONTHLY \o Colon \o <<"6">>, FreqYEARLY \o Colon \o <<"2">>,
      FreqWEEKLY, FreqHOURLY \o Colon \o <<"3">>, Colon \o <<"3">>,
      FreqWEEKLY \o Colon \o <<"0">>, FreqWEEKLY \o Colon \o <<"-", "1">>,
      FreqWEEKLY \o Colon \o <<"a", "b", "c">>, FreqWEEKLY \o Colon }

\* the forms of the requests
Forms ==
    { Form(title, start_time, end_time, all_day, recurrence_rule) :
        title \in {"", "yoga"},
        start_time \in { <<>>, <<"s", "o", "o", "n">>, FormatDashed(At(2026, 1, 5, 0, 0)),
                         FormatDashedMinute(At(2026, 1, 5, 9, 0)) },
        end_time \in { <<>>, <<"l", "a", "t", "e", "r">>, FormatDashed(At(2026, 1, 7, 0, 0)),
                       FormatDashedMinute(At(2026, 1, 5, 9, 45)),
                       FormatDashed(At(2026, 1, 4, 0, 0)),
                       FormatDashedMinute(At(2026, 1, 5, 8, 0)) },
        all_day \in BOOLEAN,
        recurrence_rule \in Selectors }

\* the readings of the clock in nanoseconds
CreateClocks == {17, 18}

InitCreate ==
    /\ store \in InitStores
    /\ view = NoView
    /\ Quiet

NextCreate ==
    \E post \in BOOLEAN, form \in Forms, nanos \in CreateClocks, ok \in BOOLEAN :
        servAddCalendarEvent(post, form, nanos, ok)

SpecCreate == InitCreate /\ [][NextCreate]_vars

\* --- what the claims about creation speak of ---

\* the selector names a rule: "<FREQ>:<n>" with one of the four frequencies and n a positive
\* integer
ValidSelector(sel) ==
    LET parts == SplitN2(sel, ":")
    IN  /\ Len(parts) = 2
        /\ KnownFreq(parts[1])
        /\ parts[2] # <<>> /\ AllDigits(parts[2]) /\ Atoi(parts[2]) > 0

\* the rule a valid selector stands for
TranslatedRule(sel) ==
    LET parts == SplitN2(sel, ":") IN RuleText(parts[1], 1, Atoi(parts[2]))

\* the request was accepted and its event stored
Created == view.kind = "create" /\ resp.status = "redirect"

\* C14 (as stated): every event created with a recurrence selector is stored as a master that
\* carries the translated rule, all-day and timed events alike; an event created without a
\* selector is stored without a rule.
C14_SelectorStoredAsMaster ==
    Created =>
        LET sel == view.form.recurrence_rule
            obj == Lookup(store, view.uid)
        IN  /\ ValidSelector(sel) => (obj.hasRRULE /\ obj.RRULE = TranslatedRule(sel))
            /\ sel = <<>> => ~obj.hasRRULE

\* C15 (as stated): a create request whose selector is not empty and names no rule (no ':',
\* a frequency outside the four tokens, a count that is no positive integer) is rejected with
\* an error and stores nothing.
C15_InvalidSelectorRejected ==
    (/\ view.kind = "create"
     /\ view.form.recurrence_rule # <<>>
     /\ ~ValidSelector(view.form.recurrence_rule))
        => /\ resp.status \in {"bad request", "error", "method not allowed"}
           /\ Lookup(store, view.uid) = NoObject

----------------------------------------------------------------------------
(* SpecDeleteOnce: one delete request runs alone from the handler to its answer; each of
   the requests it sends to the server can be the one that fails. *)

\* the requests of a delete: the discovery of the calendar (principal, home set, calendars)
\* by DeleteEvent, the fetch, the discovery by UpdateEvent, the write, the removal
Failures == {"none", "discovery", "get", "discovery of update", "put", "remove"}

\* (mutant) the error of GetCalendarObject is looked at only when no object came back
FetchFailedOnlyWhenAbsent(fail, st, path) == Lookup(st, path) = NoObject

\* data, err := client.GetCalendarObject(ctx, path); err != nil
FetchFailed(fail, st, path) == fail = "get" \/ Lookup(st, path) = NoObject

\* the result of DeleteEvent: the store it leaves, its error, and the requests on objects it
\* sent, in order
Outcome(st, err, issued) == [store |-> st, err |-> err, issued |-> issued]

\* UpdateEvent(config, uid, calendar) with the server failing the request named by fail
UpdateEvent(st, uid, cal, fail) ==
    IF fail = "discovery of update" THEN Outcome(st, TRUE, <<>>)
    ELSE IF fail = "put" THEN Outcome(st, TRUE, <<"put">>)
    ELSE Outcome(PutObject(st, uid, cal), FALSE, <<"put">>)

\* DeleteEvent(config, uid, deleteSeries, instanceDate) with the server failing the request
\* named by fail
DeleteEvent(st, uid, deleteSeries, instanceDate, fail) ==
    LET originalUID == OriginalUID(uid)
    IN  IF fail = "discovery" THEN Outcome(st, TRUE, <<>>)
        ELSE IF AddsExdate(uid, deleteSeries, instanceDate)
        THEN IF FetchFailed(fail, st, originalUID) THEN Outcome(st, TRUE, <<"get">>)
             ELSE LET cal == WithExdate(Lookup(st, originalUID), instanceDate)
                      upd == UpdateEvent(st, originalUID, cal, fail)
                  IN  Outcome(upd.store, upd.err, <<"get">> \o upd.issued)
        ELSE LET path == RemovePath(uid)
             IN  IF fail = "remove" \/ Lookup(st, path) = NoObject
                 THEN Outcome(st, TRUE, <<"remove">>)
                 ELSE Outcome(RemoveObject(st, path), FALSE, <<"remove">>)

\* servDeleteCalendarEvent for an authenticated POST, the one request of a behaviour
servDeleteCalendarEvent(uid, deleteSeries, fail) ==
    /\ view = NoView
    /\ IF uid = <<>>
       THEN /\ resp' = Response("bad request", "none", <<>>)
            /\ view' = [kind |-> "deleted", uid |-> uid, deleteSeries |-> deleteSeries,
                        fail |-> fail, before |-> store, err |-> TRUE, issued |-> <<>>]
            /\ store' = store
       ELSE LET run == CHOOSE r \in { DeleteEvent(store, uid, deleteSeries,
                                                  HandlerInstanceDate(uid), fail) } : TRUE
                last == IF run.issued = <<>> THEN "none" ELSE run.issued[Len(run.issued)]
            IN  /\ resp' = Response(IF run.err THEN "error" ELSE "success", last, OriginalUID(uid))
                /\ view' = [kind |-> "deleted", uid |-> uid, deleteSeries |-> deleteSeries,
                            fail |-> fail, before |-> store, err |-> run.err,
                            issued |-> run.issued]
                /\ store' = run.store
    /\ UNCHANGED <<req, done, page>>

\* the collections a delete meets: those of InitStores, with the master already carrying an
\* exclusion, and without the master
OnceStores ==
    InitStores
        \cup { [st EXCEPT ![MasterUID] = WithExdate(@, At(2026, 1, 12, 0, 0))] : st \in InitStores }
        \cup { [st EXCEPT ![MasterUID] = NoObject] : st \in InitStores }

InitDeleteOnce ==
    /\ store \in OnceStores
    /\ view = NoView
    /\ Quiet

NextDeleteOnce ==
    \E uid \in DeleteUIDs, deleteSeries \in BOOLEAN, fail \in Failures :
        servDeleteCalendarEvent(uid, deleteSeries, fail)

SpecDeleteOnce == InitDeleteOnce /\ [][NextDeleteOnce]_vars

\* --- what the claims about one delete speak of ---

\* the request asks for one instance: scope SINGLE on an instance ID
SingleInstanceDelete ==
    /\ view.kind = "deleted" /\ view.uid # <<>>
    /\ AddsExdate(view.uid, view.deleteSeries, HandlerInstanceDate(view.uid))

\* the requests that change the collection among those sent
MutatingRequests == { k \in 1..Len(view.issued) : view.issued[k] \in {"put", "remove"} }

\* C16: when the fetch of the master fails during a single-instance delete (the server fails
\* the request or holds no such object), the delete returns failure and sends neither a write
\* nor a removal; the collection is unchanged.
C16_FetchFailureLeavesStore ==
    (/\ SingleInstanceDelete
     /\ view.fail \notin {"discovery"}
     /\ (view.fail = "get" \/ Lookup(view.before, OriginalUID(view.uid)) = NoObject))
        => /\ view.err /\ resp.status = "error"
           /\ MutatingRequests = {}
           /\ store = view.before

\* C16 witness: the server failed the fetch of a master it holds
C16_Witness ==
    /\ SingleInstanceDelete
    /\ view.fail = "get"
    /\ Lookup(view.before, MasterUID) # NoObject
    /\ view.issued = <<"get">>
    /\ resp.status = "error"

\* C17: every delete sends at most one mutating request; when a request fails the delete
\* returns that failure, sends no further request and leaves the collection as it was; a
\* single-instance delete that succeeds has appended its exclusion exactly once.
C17_OneMutationNoRetry ==
    view.kind = "deleted" =>
        /\ Cardinality(MutatingRequests) <= 1
        /\ \A k \in MutatingRequests : k = Len(view.issued)
        /\ view.err => store = view.before
        /\ (view.fail # "none" /\ view.fail \notin {"discovery", "discovery of update"}
              /\ \E k \in 1..Len(view.issued) : view.issued[k] = view.fail)
               => (view.err /\ view.issued[Len(view.issued)] = view.fail)
        /\ (SingleInstanceDelete /\ ~view.err) =>
              LET was == Lookup(view.before, OriginalUID(view.uid)).EXDATE
                  now == Lookup(store, OriginalUID(view.uid)).EXDATE
              IN  /\ Len(now) = Len(was) + 1
                  /\ SubSeq(now, 1, Len(was)) = was
                  /\ now[Len(now)] = ExdateValue(Lookup(view.before, OriginalUID(view.uid)),
                                                 HandlerInstanceDate(view.uid))

\* C17 witness: a single-instance delete wrote its exclusion to a master that had one, and
\* the write was its only mutating request
C17_Witness ==
    /\ SingleInstanceDelete /\ ~view.err
    /\ view.issued = <<"get", "put">>
    /\ Len(Lookup(view.before, MasterUID).EXDATE) = 1
    /\ Len(Lookup(store, MasterUID).EXDATE) = 2

----------------------------------------------------------------------------
(* The page of a month (SpecGrid). *)

\* the page answers a request whose month query failed
MonthQueryFailed == page.kind # "none" /\ view.kind = "month request" /\ ~view.ok

\* no cell of the page carries an occurrence
NoCellHasEvents ==
    \A k \in 1..Len(page.CalendarDays) : page.CalendarDays[k].Events = <<>>

\* the target month of the request: its first and its last day
TargetFirst == FirstDay(TargetDate(view.monthParam, view.now))
TargetLast  == [day |-> DaysFromCivil(Year(AddDate(TargetFirst, 0, 0, 31)),
                                      Month(AddDate(TargetFirst, 0, 0, 31)), 1) - 1,
                sec |-> 0]

\* the page with which the handler answers the request when the query succeeds and the
\* grid's range holds no event (the list of upcoming events comes from the second query)
EmptyMonthPage ==
    [kind           |-> "month",
     MonthYear      |-> FormatMonthYear(TargetFirst),
     PrevMonth      |-> FormatMonth(AddDate(TargetFirst, 0, -1, 0)),
     NextMonth      |-> FormatMonth(AddDate(TargetFirst, 0, 1, 0)),
     CalendarDays   |-> CalendarDays(GridStart(TargetFirst), GridEnd(TargetLast),
                                     Month(TargetFirst), view.now, <<>>),
     UpcomingEvents |-> page.UpcomingEvents,
     EventsJSON     |-> <<>>]

\* C18 (as stated): when the event query behind the month view fails, no occurrence is
\* attached to any cell, and the caller is answered with an error: the answer differs from
\* the answer for a month without events.
C18_QueryFailureReported ==
    MonthQueryFailed => (NoCellHasEvents /\ page # EmptyMonthPage)

\* the calendar date of cell k of the page
CellDate(k) == ParseDashed(page.CalendarDays[k].Date).t

\* C19: the first cell is the last Sunday on or before the 1st of the target month, the last
\* cell the first Saturday on or after the month's last day, consecutive cells are
\* consecutive calendar dates, and a cell's 'other month' flag is true exactly when its date
\* lies before day 1 or after the last day of the target month.
C19_GridSpansWeeks ==
    page.kind = "month" =>
        LET n == Len(page.CalendarDays)
        IN  /\ n > 0
            /\ Weekday(CellDate(1)) = Sunday
            /\ CellDate(1).day <= TargetFirst.day /\ TargetFirst.day - CellDate(1).day < 7
            /\ Weekday(CellDate(n)) = Saturday
            /\ CellDate(n).day >= TargetLast.day /\ CellDate(n).day - TargetLast.day < 7
            /\ \A k \in 1..n : ParseDashed(page.CalendarDays[k].Date).ok
            /\ \A k \in 1..(n - 1) : CellDate(k + 1).day = CellDate(k).day + 1
            /\ \A k \in 1..n :
                  page.CalendarDays[k].IsOtherMonth
                      <=> (CellDate(k).day < TargetFirst.day \/ CellDate(k).day > TargetLast.day)

\* C19 witness: a month that starts on a Sunday and has padding cells only at its end
C19_Witness ==
    /\ page.kind = "month"
    /\ CellDate(1) = TargetFirst
    /\ ~page.CalendarDays[1].IsOtherMonth
    /\ page.CalendarDays[Len(page.CalendarDays)].IsOtherMonth

\* the cells, and the places in them, at which the occurrence with this UID is attached
Attached(uid) ==
    { <<k, j>> \in (1..Len(page.CalendarDays)) \X (1..10) :
        /\ j <= Len(page.CalendarDays[k].Events)
        /\ page.CalendarDays[k].Events[j].UID = uid }

\* C20: each cell covers one calendar date and the dates of the cells are distinct; every
\* attached entry is a fetched occurrence that starts on the date of its cell; every
\* occurrence is attached at most once; and every fetched occurrence whose start date is the
\* date of a cell is attached to that cell.
C20_AttachedByStartDate ==
    page.kind = "month" =>
        LET cells   == page.CalendarDays
            fetched == page.EventsJSON
        IN  /\ \A k, l \in 1..Len(cells) : cells[k].Date = cells[l].Date => k = l
            /\ \A k \in 1..Len(cells) :
                  /\ Len(cells[k].Events) <= 10
                  /\ \A j \in 1..Len(cells[k].Events) :
                        \E f \in 1..Len(fetched) :
                            /\ fetched[f].uid = cells[k].Events[j].UID
                            /\ FormatDashed(fetched[f].start_time) = cells[k].Date
            /\ \A f \in 1..Len(fetched) :
                  /\ Cardinality(Attached(fetched[f].uid)) <= 1
                  /\ \A k \in 1..Len(cells) :
                        FormatDashed(fetched[f].start_time) = cells[k].Date
                            => \E j \in 1..Len(cells[k].Events) :
                                   cells[k].Events[j].UID = fetched[f].uid

\* C20 witness: a page with a fetched occurrence that starts before the grid and is attached
\* to no cell, beside occurrences that are attached
C20_Witness ==
    /\ page.kind = "month"
    /\ \E f \in 1..Len(page.EventsJSON) : Attached(page.EventsJSON[f].uid) = {}
    /\ \E f \in 1..Len(page.EventsJSON) : Attached(page.EventsJSON[f].uid) # {}

----------------------------------------------------------------------------
(* SpecRace: two delete requests, one in each slot, run against the same collection; view
   keeps the answers of their steps in the order in which they happened. *)

\* the identifiers the two requests carry
RaceUIDs == InstanceIDs \cup {MasterUID}

\* the entry of the log for a step of slot p
LogEntry(p, uid, deleteSeries, answer) ==
    [slot |-> p, uid |-> uid, deleteSeries |-> deleteSeries,
     status |-> answer.status, issued |-> answer.issued]

\* slot p has sent nothing yet
Unused(p) == \A k \in 1..Len(view.log) : view.log[k].slot # p

\* the first part of the delete request of slot p
RaceBegin(p, uid, deleteSeries, ok) ==
    /\ view.kind = "race"
    /\ Unused(p)
    /\ DeleteBeginCore(p, uid, deleteSeries, ok)
    /\ view' = [view EXCEPT !.log = Append(@, LogEntry(p, uid, deleteSeries, resp'))]
    /\ page' = page

\* the write-back of the delete request of slot p
RacePut(p, ok) ==
    /\ view.kind = "race"
    /\ DeletePutCore(p, ok)
    /\ view' = [view EXCEPT !.log = Append(@, LogEntry(p, req[p].uid, FALSE, resp'))]
    /\ page' = page

InitRace ==
    /\ store \in InitStores
    /\ view = [kind |-> "race", log |-> <<>>]
    /\ Quiet

NextRace ==
    \/ \E p \in Slots, uid \in RaceUIDs, deleteSeries \in BOOLEAN, ok \in BOOLEAN :
          RaceBegin(p, uid, deleteSeries, ok)
    \/ \E p \in Slots, ok \in BOOLEAN : RacePut(p, ok)

SpecRace == InitRace /\ [][NextRace]_vars

\* --- what the claims about two concurrent deletes speak of ---

\* the places of the log at which slot p fetched the master, wrote it back with success, and
\* removed it with success as a series delete
FetchesOf(p) == { k \in 1..Len(view.log) : view.log[k].slot = p /\ view.log[k].issued = "get"
                                            /\ view.log[k].status = "pending" }
WritesOf(p)  == { k \in 1..Len(view.log) : view.log[k].slot = p /\ view.log[k].issued = "put"
                                            /\ view.log[k].status = "success" }
SeriesRemovalsOf(p) ==
    { k \in 1..Len(view.log) : view.log[k].slot = p /\ view.log[k].issued = "remove"
                               /\ view.log[k].status = "success" /\ view.log[k].deleteSeries }

\* both slots deleted one instance each, of different dates, and both answered success
BothSinglesSucceeded ==
    /\ view.kind = "race"
    /\ \A p \in Slots : WritesOf(p) # {}
    /\ \E k \in WritesOf(1), l \in WritesOf(2) : view.log[k].uid # view.log[l].uid

\* both fetches happened before either write
FetchesBeforeWrites ==
    \A p \in Slots, q \in Slots : \A k \in FetchesOf(p), l \in WritesOf(q) : k < l

\* the exclusion value of the delete whose write is at place k of the log
WrittenValue(k) ==
    ExdateValue(store[MasterUID], HandlerInstanceDate(view.log[k].uid))

\* C21: when two single-instance deletes for different dates of one master have both
\* answered success, the stored record is the one of the later write: if both fetches came
\* before either write the exclusion list holds only the date of the later write, otherwise
\* it holds both dates, in the order of the writes.
C21_LastWriteWins ==
    BothSinglesSucceeded =>
        LET k1 == CHOOSE k \in WritesOf(1) \cup WritesOf(2) :
                      \A l \in WritesOf(1) \cup WritesOf(2) : k <= l
            k2 == CHOOSE k \in WritesOf(1) \cup WritesOf(2) :
                      \A l \in WritesOf(1) \cup WritesOf(2) : k >= l
        IN  IF FetchesBeforeWrites
            THEN store[MasterUID].EXDATE = <<WrittenValue(k2)>>
            ELSE store[MasterUID].EXDATE = <<WrittenValue(k1), WrittenValue(k2)>>

\* C21 witness: both deletes answered success after fetching before either write, and the
\* stored list holds one date
C21_Witness ==
    /\ BothSinglesSucceeded
    /\ FetchesBeforeWrites
    /\ Len(store[MasterUID].EXDATE) = 1

\* slot p fetched the master, slot q removed it as a series, and slot p then wrote its
\* record back, all with success
WroteAfterSeriesRemoval(p, q) ==
    /\ view.kind = "race"
    /\ \E f \in FetchesOf(p), r \in SeriesRemovalsOf(q), w \in WritesOf(p) : f < r /\ r < w

\* C27: when a single-instance delete fetched the master before a series delete removed it
\* and wrote its record back afterwards, both deletes answered success and the master is
\* stored again: the event query returns occurrences of the series.
C27_WriteBackRestoresSeries ==
    \A p \in Slots, q \in Slots :
        WroteAfterSeriesRemoval(p, q) =>
            /\ Lookup(store, MasterUID) # NoObject
            /\ Len(store[MasterUID].EXDATE) = 1
            /\ OccurrencesOf(store, MasterUID) # {}

\* C27 witness: the series delete of slot 2 succeeded between the fetch and the write of the
\* single-instance delete of slot 1
C27_Witness ==
    /\ WroteAfterSeriesRemoval(1, 2)
    /\ Len(view.log) = 3
    /\ Lookup(store, MasterUID) # NoObject

----------------------------------------------------------------------------
(* SpecRoundTrip: a recurrence selector is encoded by convertToRRule and the rule string,
   as written or as a server hands it back, is decoded by the parser of expandRecurringEvent. *)

\* every c of s written as \c
RECURSIVE Escape(_, _)
Escape(s, c) ==
    IF s = <<>> THEN s
    ELSE (IF s[1] = c THEN <<"\\", c>> ELSE <<s[1]>>) \o Escape(Tail(s), c)

\* fields this decoder does not know
ExtraBefore == <<"W", "K", "S", "T", "=", "M", "O">>
ExtraAfter  == <<"B", "Y", "D", "A", "Y", "=", "M", "O", ",", "T", "U">>

\* the forms in which the rule string reaches the decoder
Variants == {"plain", "escaped", "extra fields", "escaped with extra fields"}

Vary(rrule, variant) ==
    LET extra == ExtraBefore \o Semi \o rrule \o Semi \o ExtraAfter
    IN  IF variant = "plain" THEN rrule
        ELSE IF variant = "escaped" THEN Escape(rrule, ";")
        ELSE IF variant = "extra fields" THEN extra
        ELSE Escape(Escape(extra, ";"), ",")

\* the counts of the selectors, as the form sends them: small ones, the ceiling and above,
\* the largest 32-bit number, 2^63 and a number of twenty digits
CountTexts ==
    { Itoa(n) : n \in 1..MaxCount }
        \cup { Itoa(52), Itoa(MaxOccurrences), Itoa(MaxOccurrences + 1), Itoa(2147483647),
               <<"9", "2", "2", "3", "3", "7", "2", "0", "3", "6", "8", "5", "4", "7", "7", "5", "8", "0", "8">>,
               <<"1", "0", "0", "0", "0", "0", "0", "0", "0", "0", "0", "0", "0", "0", "0", "0", "0", "0", "0", "0">> }

InitRoundTrip ==
    /\ view \in { [kind |-> "selector", freq |-> f, count |-> c, variant |-> v] :
                    f \in {FreqDAILY, FreqWEEKLY, FreqMONTHLY, FreqYEARLY},
                    c \in CountTexts, v \in Variants }
    /\ store = EmptyStore
    /\ Quiet

\* servAddCalendarEvent turns the selector into the rule string
Encode ==
    /\ view.kind = "selector"
    /\ view' = [kind |-> "encoded", freq |-> view.freq, count |-> view.count,
                variant |-> view.variant,
                rrule |-> convertToRRule(view.freq \o Colon \o view.count)]
    /\ UNCHANGED <<store, req, resp, done, page>>

\* expandRecurringEvent reads the rule string
Decode ==
    /\ view.kind = "encoded"
    /\ view' = [kind |-> "decoded", freq |-> view.freq, count |-> view.count,
                variant |-> view.variant, rrule |-> view.rrule,
                rule |-> ParseRRule(Vary(view.rrule, view.variant))]
    /\ UNCHANGED <<store, req, resp, done, page>>

NextRoundTrip == Encode \/ Decode

SpecRoundTrip == InitRoundTrip /\ [][NextRoundTrip]_vars

\* --- what the claim about the round trip speaks of ---

\* the rule string has the field INTERVAL=1
HasIntervalOne(rrule) ==
    \E k \in 1..Len(Split(rrule, ";")) : Split(rrule, ";")[k] = KeyINTERVAL \o <<"1">>

\* the count fits an int (it is below 2^63)
FitsInt(count) == Len(count) < Len(MaxInt64Digits)

----------------------------------------------------------------------------
(* The record a create request stores (SpecCreate). *)

\* C23 (as stated): every record a create request stores has end >= start, for every
\* combination of submitted start time, end time (given or defaulted) and all-day flag.
C23_EndNotBeforeStart ==
    Created =>
        LET obj == Lookup(store, view.uid)
        IN  ~Before(PropDateTime(obj.DTEND).t, PropDateTime(obj.DTSTART).t)

----------------------------------------------------------------------------
(* SpecUntil: one master whose rule is bounded by UNTIL is expanded over one window. *)

\* the UNTIL value that names step k of the master: the instant of the step in UTC, the
\* calendar date of the step, or the instant one hour after the step
UntilKinds == {"instant", "date", "hour after"}

UntilText(stepTime, untilKind) ==
    IF untilKind = "instant" THEN FormatUTC(AddSeconds(stepTime, 0 - LocalOffset))
    ELSE IF untilKind = "date" THEN FormatDate(stepTime)
    ELSE FormatUTC(AddSeconds(stepTime, 3600 - LocalOffset))

\* "FREQ=<f>;INTERVAL=<i>;UNTIL=<value>"
UntilRule(freq, interval, until) ==
    KeyFREQ \o freq \o Semi \o KeyINTERVAL \o Itoa(interval) \o Semi \o KeyUNTIL \o until

\* the last step UNTIL allows
MaxUntilStep == 3

\* the query windows: all of the master's life, from New Year to the middle of February,
\* and from the tenth of January to the first of March at noon
UntilWindows ==
    { [startDate |-> At(2025, 1, 1, 0, 0), endDate |-> At(2045, 1, 1, 0, 0)],
      [startDate |-> At(2026, 1, 1, 0, 0), endDate |-> At(2026, 2, 15, 12, 0)],
      [startDate |-> At(2026, 1, 10, 12, 0), endDate |-> At(2026, 3, 1, 12, 0)] }

UntilInputsOf(b, sh, k) ==
    LET start == PropDateTime(b.DTSTART).t
    IN  { [kind |-> "until", shape |-> sh, untilStep |-> k, untilKind |-> uk,
           obj |-> [WithRule(b, UntilRule(sh.freq, sh.interval,
                                          UntilText(StepTime(start, sh, k), uk)))
                       EXCEPT !.EXDATE = ex],
           startDate |-> w.startDate, endDate |-> w.endDate, events |-> <<>>] :
            uk \in UntilKinds, w \in UntilWindows,
            ex \in { <<>>, <<FormatDate(StepTime(start, sh, 1))>> } }

InitUntil ==
    /\ view \in UNION { UntilInputsOf(b, [freq |-> f, interval |-> i, count |-> DefaultCount], k) :
                          b \in ExpandBases, f \in {FreqDAILY, FreqWEEKLY, FreqMONTHLY},
                          i \in 1..MaxInterval, k \in 1..MaxUntilStep }
    /\ store = EmptyStore
    /\ Quiet

\* the body of GetCalendarEvents for the fetched VEVENT
ExpandUntil ==
    /\ view.kind = "until"
    /\ view' = [view EXCEPT !.kind = "until expanded",
                            !.events = ComponentEvents(view.obj, view.startDate, view.endDate)]
    /\ UNCHANGED <<store, req, resp, done, page>>

NextUntil == ExpandUntil

SpecUntil == InitUntil /\ [][NextUntil]_vars

\* --- what the claim about UNTIL speaks of ---

\* the start times of the emitted occurrences
EmittedStarts == { view.events[j].StartTime : j \in 1..Len(view.events) }

\* the steps up to and with the step that UNTIL names which lie inside the window and whose
\* date is not excluded
StepsThroughUntil ==
    { StepTime(ViewStart, view.shape, i) : i \in 0..view.untilStep }
        \cap { t \in { StepTime(ViewStart, view.shape, i) : i \in 0..view.untilStep } :
                 /\ ~Before(t, view.startDate) /\ ~After(t, view.endDate)
                 /\ FormatDate(t) \notin ExcludedDates }

\* C24 (as stated): for a rule bounded by UNTIL and no COUNT the emitted occurrences are
\* exactly the steps inside the window that are not excluded and not after UNTIL: the step
\* equal to UNTIL is emitted, no step after it, and no step on or before it is dropped.
C24_UntilInclusive ==
    view.kind = "until expanded" =>
        /\ EmittedStarts = StepsThroughUntil
        /\ Len(view.events) = Cardinality(StepsThroughUntil)

----------------------------------------------------------------------------
(* The occurrences of one expansion against their master (SpecExpand). *)

\* the master of the expansion as GetCalendarEvents reads it
ViewMaster == EventOf(view.obj)

\* e is master moved to e's own start: the identifier carries the date of that start, the
\* duration is the master's, and the descriptive fields are the master's
ShiftedMaster(e, master) ==
    /\ e.UID = master.UID \o <<"-">> \o FormatDate(e.StartTime)
    /\ SubTime(e.EndTime, e.StartTime) = SubTime(master.EndTime, master.StartTime)
    /\ e.Title = master.Title
    /\ e.Description = master.Description
    /\ e.Location = master.Location
    /\ e.AllDay = master.AllDay
    /\ e.CreatedBy = master.CreatedBy
    /\ e.Attendees = master.Attendees

\* C25: every occurrence emitted for a recurring master is the master shifted to the step
\* date (identifier <masterID>-<YYYYMMDD> of its own start, the master's duration, title,
\* description, location, all-day flag, creator and attendees), and the expansion leaves
\* the master as it was.
C25_OccurrenceIsShiftedMaster ==
    [][Expand =>
        /\ view'.obj = view.obj
        /\ \A j \in 1..Len(view'.events) : ShiftedMaster(view'.events[j], ViewMaster)]_vars

\* an expansion of the master with attendees has emitted at least two occurrences, the
\* second on a later date than the master's own
C25_Witness ==
    /\ view.kind = "expanded"
    /\ ViewMaster.Attendees # <<>>
    /\ Len(view.events) >= 2
    /\ view.events[2].StartTime # ViewMaster.StartTime
    /\ view.events[2].UID # view.events[1].UID

----------------------------------------------------------------------------
(* SpecOrder: GetCalendarEvents over a collection of two records, over the windows that
   servCalendar asks for. *)

\* the second record: the single appointment, a weekly class that began before the
\* meetings, and an all-day daily series
OrderSeconds ==
    { Dentist,
      WithRule(TimedObject(SingleUID, "class", At(2026, 1, 3, 18, 0), At(2026, 1, 3, 19, 0)),
               RuleText(FreqWEEKLY, 1, MaxCount)),
      WithRule(AllDayObject(SingleUID, "fair", At(2026, 1, 30, 0, 0), At(2026, 1, 31, 0, 0)),
               RuleText(FreqDAILY, 1, MaxCount)) }

OrderStores ==
    { [u \in PathSet |-> IF u = MasterUID THEN WithRule(b, RuleText(sh.freq, sh.interval, sh.count))
                         ELSE second] :
        b \in ExpandBases, second \in OrderSeconds,
        sh \in { r \in RuleShapes : r.count <= MaxCount } }

\* the window of the month grid of targetDate and the window of the upcoming list at now
MonthWindow(targetDate) ==
    [startDate |-> GridStart(FirstDay(targetDate)),
     endDate   |-> AddSeconds(GridEnd(LastDay(FirstDay(targetDate))), SecondsPerDay)]

UpcomingWindow(now) == [startDate |-> now, endDate |-> AddDate(now, 0, 0, UpcomingDays)]

OrderWindows ==
    { MonthWindow(At(2026, m, 1, 0, 0)) : m \in 1..3 }
        \cup { UpcomingWindow(now) : now \in {At(2026, 1, 14, 12, 0), At(2026, 1, 31, 9, 0)} }

InitOrder ==
    /\ store \in OrderStores
    /\ view = NoView
    /\ Quiet

\* GetCalendarEvents over window w; parts holds what each fetched object contributed
\* before the list was sorted, events the list returned
OrderQuery(w, ok) ==
    LET objects == QueryCalendar(store, Paths, w.startDate, w.endDate)
        got     == GetCalendarEvents(store, Paths, w.startDate, w.endDate, ok)
    IN  /\ view = NoView
        /\ view' = [kind |-> "order", startDate |-> w.startDate, endDate |-> w.endDate,
                    objects |-> IF ok THEN objects ELSE <<>>,
                    parts |-> IF ok THEN [k \in 1..Len(objects) |->
                                             ComponentEvents(objects[k], w.startDate, w.endDate)]
                              ELSE <<>>,
                    events |-> got.events, err |-> got.err]
        /\ UNCHANGED <<store, req, resp, done, page>>

NextOrder == \E w \in OrderWindows, ok \in BOOLEAN : OrderQuery(w, ok)

SpecOrder == InitOrder /\ [][NextOrder]_vars

\* --- what the claim about order speaks of ---

StrictlyIncreasing(events) ==
    \A j \in 1..(Len(events) - 1) : Before(events[j].StartTime, events[j + 1].StartTime)

NonDecreasing(events) ==
    \A j \in 1..(Len(events) - 1) : ~After(events[j].StartTime, events[j + 1].StartTime)

\* the rule of the object has a recognized frequency and a positive interval
OrderedRule(obj) ==
    /\ obj.hasRRULE
    /\ KnownFreq(ParseRRule(obj.RRULE).freq)
    /\ ParseRRule(obj.RRULE).interval > 0

\* C26: for every rule with a recognized frequency and a positive interval the occurrences
\* of one expansion are emitted in strictly increasing order of start time, and the list an
\* event query returns over several records (for the month grid and for the upcoming list)
\* is ordered by non-decreasing start time.
C26_Chronological ==
    view.kind = "order" =>
        /\ \A k \in 1..Len(view.parts) :
               OrderedRule(view.objects[k]) => StrictlyIncreasing(view.parts[k])
        /\ NonDecreasing(view.events)

\* a query returned occurrences of two recurring records, interleaved: each contributed at
\* least two, and the list before sorting was not in order
C26_Witness ==
    /\ view.kind = "order"
    /\ Len(view.parts) = 2
    /\ OrderedRule(view.objects[1]) /\ OrderedRule(view.objects[2])
    /\ Len(view.parts[1]) >= 2 /\ Len(view.parts[2]) >= 2
    /\ ~NonDecreasing(view.parts[1] \o view.parts[2])
    /\ Len(view.events) = Len(view.parts[1]) + Len(view.parts[2])

----------------------------------------------------------------------------
(* SpecNested: one master is expanded over a window and over a window that contains it. *)

NestedRules ==
    { r.rrule : r \in RuleTexts }
        \cup { RuleText(f, i, MaxCount) :
                 f \in {FreqDAILY, FreqWEEKLY, FreqMONTHLY, FreqYEARLY}, i \in 1..MaxInterval }

\* twenty years, two months, a month from the tenth at noon, the two weeks before the first
\* master begins, and the first half of January
NestedWindows ==
    { [startDate |-> At(2025, 1, 1, 0, 0),    endDate |-> At(2045, 1, 1, 0, 0)],
      [startDate |-> At(2026, 1, 1, 0, 0),    endDate |-> At(2026, 3, 1, 12, 0)],
      [startDate |-> At(2026, 1, 10, 12, 0),  endDate |-> At(2026, 2, 10, 12, 0)],
      [startDate |-> At(2025, 12, 20, 0, 0),  endDate |-> At(2026, 1, 3, 12, 0)],
      [startDate |-> At(2026, 1, 1, 0, 0),    endDate |-> At(2026, 1, 15, 12, 0)] }

\* window inner lies within window outer
Contained(inner, outer) ==
    ~Before(inner.startDate, outer.startDate) /\ ~After(inner.endDate, outer.endDate)

\* the pairs <<inner, outer>> of different windows, the first within the second
NestedPairs ==
    { pair \in NestedWindows \X NestedWindows : pair[1] # pair[2] /\ Contained(pair[1], pair[2]) }

NestedInputsOf(b, rrule) ==
    { [kind |-> "nested", obj |-> [WithRule(b, rrule) EXCEPT !.EXDATE = ex],
       inner |-> pair[1], outer |-> pair[2], innerEvents |-> <<>>, outerEvents |-> <<>>] :
        ex \in { <<>>, <<FormatDate(AddDate(PropDateTime(b.DTSTART).t, 0, 0, 7))>> },
        pair \in NestedPairs }

InitNested ==
    /\ view \in UNION { NestedInputsOf(b, rrule) : b \in ExpandBases, rrule \in NestedRules }
    /\ store = EmptyStore
    /\ Quiet

\* the body of GetCalendarEvents for the fetched VEVENT, for each of the two windows
ExpandNested ==
    /\ view.kind = "nested"
    /\ view' = [view EXCEPT
                   !.kind = "nested expanded",
                   !.innerEvents = ComponentEvents(view.obj, view.inner.startDate, view.inner.endDate),
                   !.outerEvents = ComponentEvents(view.obj, view.outer.startDate, view.outer.endDate)]
    /\ UNCHANGED <<store, req, resp, done, page>>

NextNested == ExpandNested

SpecNested == InitNested /\ [][NextNested]_vars

\* the events of the list whose start lies within the bounds of window w, in their order
Restricted(events, w) ==
    LET Within(e) == ~Before(e.StartTime, w.startDate) /\ ~After(e.StartTime, w.endDate)
    IN  SelectSeq(events, Within)

\* C28 (as stated): whether a step of a master yields an occurrence does not depend on the
\* window queried: for windows W1 within W2 the expansion over W1 equals the expansion over
\* W2 restricted to the occurrences whose start lies within the bounds of W1.
C28_WindowIndependent ==
    view.kind = "nested expanded" =>
        view.innerEvents = Restricted(view.outerEvents, view.inner)

----------------------------------------------------------------------------
(* The identifiers of the occurrences of one expansion (SpecRule). *)

\* the identifiers of the emitted occurrences
EmittedUIDs == { view.events[j].UID : j \in 1..Len(view.events) }

\* C29 (as stated): for every rule string the decoder accepts, INTERVAL=0 among them, and
\* every window, no two occurrences emitted by one expansion of a master share an instance
\* identifier.
C29_InstanceIDsDistinct ==
    view.kind = "ran" => Cardinality(EmittedUIDs) = Len(view.events)

----------------------------------------------------------------------------
(* The two places that resolve an instance identifier (SpecDeleteOnce). *)

\* DeleteEvent strips a date suffix from the identifier
StripsSuffix(uid) == OriginalUID(uid) # uid

\* the handler derives an occurrence date from the identifier
DerivesDate(uid) == ~IsZero(HandlerInstanceDate(uid))

\* C30 (as stated): the handler derives a non-zero occurrence date from an identifier
\* exactly when DeleteEvent strips a date suffix from it, so a SINGLE delete on an
\* identifier whose suffix after the last '-' is 8 digits that form no calendar date does
\* not remove the record of the stripped master identifier.
C30_ResolversAgree ==
    (view.kind = "deleted" /\ view.uid # <<>>) =>
        /\ DerivesDate(view.uid) <=> StripsSuffix(view.uid)
        /\ (~view.deleteSeries /\ StripsSuffix(view.uid) /\ ~DerivesDate(view.uid)) =>
               Lookup(store, OriginalUID(view.uid)) = Lookup(view.before, OriginalUID(view.uid))

====
